---------------------------- MODULE Spec2Model ----------------------------
(***************************************************************************)
(* A model of the routetype crates: the raw codec (raw.rs), the path       *)
(* normalization (normalize.rs), the Route trait, the route pieces, the    *)
(* QueryMap and PlainRoute (lib.rs), and the code that #[derive(Route)]    *)
(* generates for an enum of route templates (route_parse.rs).              *)
(*                                                                         *)
(* A string is a sequence of Unicode code points (natural numbers); a byte *)
(* string is a sequence of numbers in 0..255.                              *)
(***************************************************************************)
EXTENDS Integers, Sequences, FiniteSets, TLC

(***************************************************************************)
(* Bounds of the model.                                                    *)
(***************************************************************************)
\* Longest path (in segments) of a generated route value or request.
MaxSegs == 2
\* Most query pairs of a generated route value or request.
MaxPairs == 2
\* Longest run of dashes in a generated segment.
MaxDash == 4

(***************************************************************************)
(* Text.                                                                   *)
(***************************************************************************)
\* The printable ASCII characters, U+0020 to U+007E, in order ("GRAVE" stands
\* for U+0060, which a TLA+ string cannot hold).
Ascii ==
  << " ", "!", "\"", "#", "$", "%", "&", "'", "(", ")", "*", "+", ",", "-",
     ".", "/", "0", "1", "2", "3", "4", "5", "6", "7", "8", "9", ":", ";",
     "<", "=", ">", "?", "@", "A", "B", "C", "D", "E", "F", "G", "H", "I",
     "J", "K", "L", "M", "N", "O", "P", "Q", "R", "S", "T", "U", "V", "W",
     "X", "Y", "Z", "[", "\\", "]", "^", "_", "GRAVE", "a", "b", "c", "d", "e",
     "f", "g", "h", "i", "j", "k", "l", "m", "n", "o", "p", "q", "r", "s",
     "t", "u", "v", "w", "x", "y", "z", "{", "|", "}", "~" >>

\* The code point of a printable ASCII character.
Ord(c) == 31 + CHOOSE i \in 1..Len(Ascii) : Ascii[i] = c

\* The string spelled by a tuple of printable ASCII characters.
Str(t) == [i \in 1..Len(t) |-> Ord(t[i])]

\* The concatenation of a sequence of strings.
RECURSIVE Concat(_)
Concat(ss) == IF ss = <<>> THEN <<>> ELSE Head(ss) \o Concat(Tail(ss))

\* str::split: the pieces of s between the occurrences of the character c
\* (always at least one piece; n occurrences give n + 1 pieces).
RECURSIVE SplitFrom(_, _, _, _)
SplitFrom(s, c, i, cur) ==
  IF i > Len(s) THEN << cur >>
  ELSE IF s[i] = c THEN << cur >> \o SplitFrom(s, c, i + 1, <<>>)
  ELSE SplitFrom(s, c, i + 1, Append(cur, s[i]))

Split(s, c) == SplitFrom(s, c, 1, <<>>)

\* str::find: the index of the first occurrence of c in s, 0 when there is none.
Find(s, c) ==
  IF \E i \in 1..Len(s) : s[i] = c
  THEN CHOOSE i \in 1..Len(s) : s[i] = c /\ \A j \in 1..(i - 1) : s[j] # c
  ELSE 0

\* Option<T>.
None == [some |-> FALSE]
Some(v) == [some |-> TRUE, val |-> v]

(***************************************************************************)
(* UTF-8 and percent-encoding (raw.rs, through the percent_encoding crate). *)
(***************************************************************************)
\* The UTF-8 encoding of one code point.
Utf8Char(c) ==
  IF c < 128 THEN << c >>
  ELSE IF c < 2048 THEN << 192 + (c \div 64), 128 + (c % 64) >>
  ELSE IF c < 65536
    THEN << 224 + (c \div 4096), 128 + ((c \div 64) % 64), 128 + (c % 64) >>
  ELSE << 240 + (c \div 262144), 128 + ((c \div 4096) % 64),
          128 + ((c \div 64) % 64), 128 + (c % 64) >>

\* The bytes of a string (a Rust &str is UTF-8).
Utf8Encode(s) == Concat([i \in 1..Len(s) |-> Utf8Char(s[i])])

IsCont(b) == b >= 128 /\ b <= 191

\* Whether the byte second may follow the lead byte first in well-formed UTF-8.
SecondOk(first, second) ==
  IF first = 224 THEN second >= 160 /\ second <= 191
  ELSE IF first = 237 THEN second >= 128 /\ second <= 159
  ELSE IF first = 240 THEN second >= 144 /\ second <= 191
  ELSE IF first = 244 THEN second >= 128 /\ second <= 143
  ELSE IsCont(second)

\* The length of the sequence a lead byte announces, 0 for a byte that is no lead.
Utf8Width(b) ==
  IF b < 128 THEN 1
  ELSE IF b >= 194 /\ b <= 223 THEN 2
  ELSE IF b >= 224 /\ b <= 239 THEN 3
  ELSE IF b >= 240 /\ b <= 244 THEN 4
  ELSE 0

\* U+FFFD REPLACEMENT CHARACTER.
Replacement == 65533

\* String::from_utf8_lossy: every maximal ill-formed run of bytes becomes one
\* U+FFFD, every well-formed sequence its code point.
RECURSIVE Utf8Lossy(_, _)
Utf8Lossy(b, i) ==
  IF i > Len(b) THEN <<>>
  ELSE
    LET w == Utf8Width(b[i])
        has(k) == i + k <= Len(b)
    IN
      IF w = 1 THEN << b[i] >> \o Utf8Lossy(b, i + 1)
      ELSE IF w = 0 THEN << Replacement >> \o Utf8Lossy(b, i + 1)
      ELSE IF ~(has(1) /\ SecondOk(b[i], b[i + 1]))
        THEN << Replacement >> \o Utf8Lossy(b, i + 1)
      ELSE IF w = 2
        THEN << (b[i] - 192) * 64 + (b[i + 1] - 128) >> \o Utf8Lossy(b, i + 2)
      ELSE IF ~(has(2) /\ IsCont(b[i + 2]))
        THEN << Replacement >> \o Utf8Lossy(b, i + 2)
      ELSE IF w = 3
        THEN << (b[i] - 224) * 4096 + (b[i + 1] - 128) * 64 + (b[i + 2] - 128) >>
             \o Utf8Lossy(b, i + 3)
      ELSE IF ~(has(3) /\ IsCont(b[i + 3]))
        THEN << Replacement >> \o Utf8Lossy(b, i + 3)
      ELSE << (b[i] - 240) * 262144 + (b[i + 1] - 128) * 4096
              + (b[i + 2] - 128) * 64 + (b[i + 3] - 128) >>
           \o Utf8Lossy(b, i + 4)

\* The value of an ASCII hexadecimal digit (either case), -1 for any other byte.
HexVal(b) ==
  IF b >= Ord("0") /\ b <= Ord("9") THEN b - Ord("0")
  ELSE IF b >= Ord("A") /\ b <= Ord("F") THEN b - Ord("A") + 10
  ELSE IF b >= Ord("a") /\ b <= Ord("f") THEN b - Ord("a") + 10
  ELSE -1

\* percent_encoding::percent_decode: "%XY" with two hexadecimal digits becomes
\* the byte 0xXY; every other byte, a '%' without two digits after it
\* included, is copied.
RECURSIVE PercentDecode(_, _)
PercentDecode(b, i) ==
  IF i > Len(b) THEN <<>>
  ELSE IF /\ b[i] = Ord("%")
          /\ i + 2 <= Len(b)
          /\ HexVal(b[i + 1]) >= 0
          /\ HexVal(b[i + 2]) >= 0
    THEN << HexVal(b[i + 1]) * 16 + HexVal(b[i + 2]) >> \o PercentDecode(b, i + 3)
  ELSE << b[i] >> \o PercentDecode(b, i + 1)

\* raw.rs decode: percent_decode_str(s).decode_utf8_lossy().
decode(s) == Utf8Lossy(PercentDecode(Utf8Encode(s), 1), 1)

\* The upper-case hexadecimal digit of a value in 0..15.
HexDigit(v) == IF v < 10 THEN Ord("0") + v ELSE Ord("A") + (v - 10)

\* percent_encoding::CONTROLS: the C0 controls and DEL.
CONTROLS == (0..31) \cup {127}

\* raw.rs QUERY_SET and PATH_SET.
QUERY_SET == CONTROLS \cup {Ord(" "), Ord("\""), Ord("#"), Ord("<"), Ord(">")}
PATH_SET == QUERY_SET \cup {Ord("?"), Ord("GRAVE"), Ord("{"), Ord("}"), Ord("/")}

\* One byte as utf8_percent_encode writes it: "%XY" for a byte of the set and
\* for every non-ASCII byte, the byte itself otherwise.
EncodeByte(b, set) ==
  IF b >= 128 \/ b \in set
  THEN << Ord("%"), HexDigit(b \div 16), HexDigit(b % 16) >>
  ELSE << b >>

\* An encoding that leaves every character as it is.
encode_none(s, set) == s

\* raw.rs encode_append: the text utf8_percent_encode(s, set) appends.
encode(s, set) ==
  LET b == Utf8Encode(s) IN Concat([i \in 1..Len(b) |-> EncodeByte(b[i], set)])

(***************************************************************************)
(* raw.rs: the lexer and the renderer.                                     *)
(*                                                                         *)
(* A path is a sequence of segments (strings); a query pair is a record    *)
(* [key, value] whose value is an Option<string>; a query is an            *)
(* Option<sequence of pairs>.                                              *)
(***************************************************************************)
Pair(k, v) == [key |-> k, value |-> v]

\* A parse_path that drops every leading '/'.
RECURSIVE parse_path_all_leading(_)
parse_path_all_leading(p) ==
  IF p # <<>> /\ p[1] = Ord("/") THEN parse_path_all_leading(Tail(p))
  ELSE IF p = <<>> THEN <<>>
  ELSE LET raw == Split(p, Ord("/")) IN [i \in 1..Len(raw) |-> decode(raw[i])]

\* raw.rs parse_path: one leading '/' is dropped, nothing left gives no
\* segment, otherwise the text is split at every '/' and each piece decoded.
parse_path(p) ==
  LET path == IF p # <<>> /\ p[1] = Ord("/") THEN Tail(p) ELSE p IN
    IF path = <<>> THEN <<>>
    ELSE LET raw == Split(path, Ord("/")) IN [i \in 1..Len(raw) |-> decode(raw[i])]

\* A parse_query_pair that takes an empty value for no value.
parse_query_pair_no_empty(pair) ==
  LET idx == Find(pair, Ord("=")) IN
    IF idx = 0 THEN Pair(decode(pair), None)
    ELSE IF idx = Len(pair) THEN Pair(decode(SubSeq(pair, 1, idx - 1)), None)
    ELSE Pair(decode(SubSeq(pair, 1, idx - 1)),
              Some(decode(SubSeq(pair, idx + 1, Len(pair)))))

\* raw.rs parse_query_pair: split at the first '=', if any.
parse_query_pair(pair) ==
  LET idx == Find(pair, Ord("=")) IN
    IF idx = 0 THEN Pair(decode(pair), None)
    ELSE Pair(decode(SubSeq(pair, 1, idx - 1)),
              Some(decode(SubSeq(pair, idx + 1, Len(pair)))))

\* raw.rs parse_query: nothing gives no pair, otherwise split at every '&'.
parse_query(q) ==
  IF q = <<>> THEN <<>>
  ELSE LET raw == Split(q, Ord("&")) IN [i \in 1..Len(raw) |-> parse_query_pair(raw[i])]

\* A parse_path_and_query that cuts at the last '?'.
parse_path_and_query_last(s) ==
  LET marks == {i \in 1..Len(s) : s[i] = Ord("?")} IN
    IF marks = {} THEN [path |-> parse_path(s), query |-> None]
    ELSE LET idx == CHOOSE i \in marks : \A j \in marks : j <= i IN
      [path |-> parse_path(SubSeq(s, 1, idx - 1)),
       query |-> Some(parse_query(SubSeq(s, idx + 1, Len(s))))]

\* raw.rs parse_path_and_query: split at the first '?', if any.
parse_path_and_query(s) ==
  LET idx == Find(s, Ord("?")) IN
    IF idx = 0 THEN [path |-> parse_path(s), query |-> None]
    ELSE [path |-> parse_path(SubSeq(s, 1, idx - 1)),
          query |-> Some(parse_query(SubSeq(s, idx + 1, Len(s))))]

\* One pair as render_path_and_query writes it (raw.rs lines 211-215).
render_pair(p) ==
  encode(p.key, QUERY_SET)
    \o (IF p.value.some THEN << Ord("=") >> \o encode(p.value.val, QUERY_SET) ELSE <<>>)

\* A render_path_and_query that writes no '?' for a query of no pairs.
render_path_and_query_no_mark(path, query) ==
  LET segs == Concat([i \in 1..Len(path) |-> << Ord("/") >> \o encode(path[i], PATH_SET)])
      res == IF segs = <<>> THEN << Ord("/") >> ELSE segs
      q == IF query.some /\ query.val # <<>>
           THEN << Ord("?") >>
                \o Concat([i \in 1..Len(query.val) |->
                     (IF i = 1 THEN <<>> ELSE << Ord("&") >>) \o render_pair(query.val[i])])
           ELSE <<>>
  IN res \o q

\* A render_path_and_query that ends every path with a '/'.
render_path_and_query_trailing(path, query) ==
  LET segs == Concat([i \in 1..Len(path) |-> encode(path[i], PATH_SET) \o << Ord("/") >>])
      q == IF query.some
           THEN << Ord("?") >>
                \o Concat([i \in 1..Len(query.val) |->
                     (IF i = 1 THEN <<>> ELSE << Ord("&") >>) \o render_pair(query.val[i])])
           ELSE <<>>
  IN << Ord("/") >> \o segs \o q

\* raw.rs render_path_and_query.
render_path_and_query(path, query) ==
  LET segs == Concat([i \in 1..Len(path) |-> << Ord("/") >> \o encode(path[i], PATH_SET)])
      res == IF segs = <<>> THEN << Ord("/") >> ELSE segs
      q == IF query.some
           THEN << Ord("?") >>
                \o Concat([i \in 1..Len(query.val) |->
                     (IF i = 1 THEN <<>> ELSE << Ord("&") >>) \o render_pair(query.val[i])])
           ELSE <<>>
  IN res \o q

(***************************************************************************)
(* normalize.rs.                                                           *)
(***************************************************************************)
\* The test !s.contains(|c| c != '-'): s holds nothing but dashes (the empty
\* string included).
OnlyDashes(s) == \A i \in 1..Len(s) : s[i] = Ord("-")

\* normalize.rs drop_one: String::pop, which leaves an empty string as it is.
\* drop_one that forgets to strip the dash.
drop_one_kept(s) == s

drop_one(s) == IF s = <<>> THEN s ELSE SubSeq(s, 1, Len(s) - 1)

\* Result<(path, query), String> of normalize_parse; Panicked is the failure
\* of assert!(!s.is_empty()).
NormOk(path, query) == [tag |-> "Ok", path |-> path, query |-> query]
NormErr(target) == [tag |-> "Err", target |-> target]
Panicked == [tag |-> "Panic"]

\* The segments of path, the empty ones too.
AllSegments(path) == path

\* The segments of path that are not empty, in order (normalize.rs line 53).
RECURSIVE NonEmptySegments(_)
NonEmptySegments(path) ==
  IF path = <<>> THEN <<>>
  ELSE (IF Head(path) = <<>> THEN <<>> ELSE << Head(path) >>)
         \o NonEmptySegments(Tail(path))

\* A normalize_parse that looks for an empty segment in the first place only.
normalize_parse_first(path, query) ==
  IF path # <<>> /\ path[1] = <<>>
  THEN NormErr(render_path_and_query(NonEmptySegments(path), query))
  ELSE IF \E i \in 1..Len(path) : OnlyDashes(path[i]) /\ path[i] = <<>>
  THEN Panicked
  ELSE NormOk([i \in 1..Len(path) |->
                 IF OnlyDashes(path[i]) THEN drop_one(path[i]) ELSE path[i]],
              query)

\* A normalize_parse that does not look for empty segments before it strips
\* the dashes.
normalize_parse_unchecked(path, query) ==
  IF \E i \in 1..Len(path) : OnlyDashes(path[i]) /\ path[i] = <<>>
  THEN Panicked
  ELSE NormOk([i \in 1..Len(path) |->
                 IF OnlyDashes(path[i]) THEN drop_one(path[i]) ELSE path[i]],
              query)

\* normalize.rs Normalization::normalize_parse.
normalize_parse(path, query) ==
  IF \E i \in 1..Len(path) : path[i] = <<>>
  THEN NormErr(render_path_and_query(NonEmptySegments(path), query))
  ELSE IF \E i \in 1..Len(path) : OnlyDashes(path[i]) /\ path[i] = <<>>
  THEN Panicked
  ELSE NormOk([i \in 1..Len(path) |->
                 IF OnlyDashes(path[i]) THEN drop_one(path[i]) ELSE path[i]],
              query)

\* A rendering that escapes the dashes but passes the empty segment on.
render_segment_nonempty(seg) ==
  IF OnlyDashes(seg) /\ seg # <<>> THEN Append(seg, Ord("-")) ELSE seg

\* One segment as normalize_render_path leaves it.
render_segment(seg) ==
  IF OnlyDashes(seg)
  THEN CASE Len(seg) = 0 -> Str(<< "-" >>)
         [] Len(seg) = 1 -> Str(<< "-", "-" >>)
         [] Len(seg) = 2 -> Str(<< "-", "-", "-" >>)
         [] Len(seg) = 3 -> Str(<< "-", "-", "-", "-" >>)
         [] OTHER -> Append(seg, Ord("-"))
  ELSE seg

\* normalize.rs Normalization::normalize_render_path.
normalize_render_path(path) == [i \in 1..Len(path) |-> render_segment(path[i])]

(***************************************************************************)
(* lib.rs: RouteError, the route pieces, the QueryMap.                     *)
(***************************************************************************)
\* Result<Route, RouteError>; Panic is a call that did not return.
Ok(route) == [tag |-> "Ok", route |-> route]
NoMatch == [tag |-> "NoMatch"]
NormalizationFailed(target) == [tag |-> "NormalizationFailed", target |-> target]
Panic == [tag |-> "Panic"]

\* A value of a type that implements RoutePiece.
StringPiece(s) == [typ |-> "String", str |-> s, int |-> 0, bool |-> FALSE]
I32Piece(n) == [typ |-> "i32", str |-> <<>>, int |-> n, bool |-> FALSE]
BoolPiece(b) == [typ |-> "bool", str |-> <<>>, int |-> 0, bool |-> b]

I32Max == 2147483647
I32Min == -I32Max - 1

IsDigit(c) == c >= Ord("0") /\ c <= Ord("9")

\* The digits of an i32 read as i32::from_str reads them, each step checked
\* for overflow: None on overflow.
RECURSIVE ReadDigits(_, _, _, _)
ReadDigits(s, i, acc, negative) ==
  IF i > Len(s) THEN Some(acc)
  ELSE LET d == s[i] - Ord("0") IN
    IF negative
    THEN IF acc < (I32Min + d + 9) \div 10 THEN None
         ELSE ReadDigits(s, i + 1, acc * 10 - d, negative)
    ELSE IF acc > (I32Max - d) \div 10 THEN None
         ELSE ReadDigits(s, i + 1, acc * 10 + d, negative)

\* <i32 as FromStr>::from_str: an optional sign, then one or more digits.
ParseI32(s) ==
  IF s = <<>> THEN None
  ELSE LET signed == s[1] \in {Ord("+"), Ord("-")}
           digits == IF signed THEN Tail(s) ELSE s
       IN IF digits = <<>> \/ \E i \in 1..Len(digits) : ~IsDigit(digits[i])
          THEN None
          ELSE ReadDigits(digits, 1, 0, s[1] = Ord("-"))

\* The decimal digits of a number n <= 0, without sign.
RECURSIVE DigitsOfNeg(_)
DigitsOfNeg(n) ==
  LET d == (10 - (n % 10)) % 10
      rest == (n + d) \div 10
  IN (IF rest = 0 THEN <<>> ELSE DigitsOfNeg(rest)) \o << Ord("0") + d >>

\* i32::to_string.
I32ToString(n) ==
  IF n < 0 THEN << Ord("-") >> \o DigitsOfNeg(n) ELSE DigitsOfNeg(0 - n)

\* RoutePiece::parse_route_piece for String, i32 and bool.
parse_route_piece(typ, s) ==
  CASE typ = "String" -> Some(StringPiece(s))
    [] typ = "i32" ->
         LET n == ParseI32(s) IN IF n.some THEN Some(I32Piece(n.val)) ELSE None
    [] typ = "bool" ->
         IF s = Str(<< "t", "r", "u", "e" >>) THEN Some(BoolPiece(TRUE))
         ELSE IF s = Str(<< "f", "a", "l", "s", "e" >>) THEN Some(BoolPiece(FALSE))
         ELSE None

\* RoutePiece::render_route_piece for String, i32 and bool.
render_route_piece(v) ==
  CASE v.typ = "String" -> v.str
    [] v.typ = "i32" -> I32ToString(v.int)
    [] v.typ = "bool" ->
         IF v.bool THEN Str(<< "t", "r", "u", "e" >>)
         ELSE Str(<< "f", "a", "l", "s", "e" >>)

\* An insert that files a key without value as a key with the empty value.
query_map_insert_valued(map, pair) ==
  LET old == IF pair.key \in DOMAIN map THEN map[pair.key]
             ELSE [bare |-> 0, values |-> <<>>]
      new == [old EXCEPT !.values =
                Append(@, IF pair.value.some THEN pair.value.val ELSE <<>>)]
  IN [k \in DOMAIN map \cup {pair.key} |-> IF k = pair.key THEN new ELSE map[k]]

\* One step of the loop of QueryMap::from_query_iter: the entry of the key is
\* created as (0, []) when missing, then counts a pair without value or
\* collects the value.
query_map_insert(map, pair) ==
  LET old == IF pair.key \in DOMAIN map THEN map[pair.key]
             ELSE [bare |-> 0, values |-> <<>>]
      new == IF pair.value.some
             THEN [old EXCEPT !.values = Append(@, pair.value.val)]
             ELSE [old EXCEPT !.bare = @ + 1]
  IN [k \in DOMAIN map \cup {pair.key} |-> IF k = pair.key THEN new ELSE map[k]]

RECURSIVE query_map_fold(_, _, _)
query_map_fold(map, pairs, i) ==
  IF i > Len(pairs) THEN map
  ELSE query_map_fold(query_map_insert(map, pairs[i]), pairs, i + 1)

\* QueryMap::from_query_iter: no query gives the empty map.
from_query_iter(query) ==
  IF ~query.some THEN <<>> ELSE query_map_fold(<<>>, query.val, 1)

\* A get_single that answers the first value of several.
get_single_first(map, name) ==
  IF name \notin DOMAIN map THEN None
  ELSE IF Len(map[name].values) >= 1 THEN Some(map[name].values[1])
  ELSE None

\* QueryMap::get_single.
get_single(map, name) ==
  IF name \notin DOMAIN map THEN None
  ELSE IF Len(map[name].values) = 1 THEN Some(map[name].values[1])
  ELSE None

\* A contains that only asks whether the query has keys.
contains_any(map, name) == DOMAIN map # {}

\* QueryMap::contains.
contains(map, name) == name \in DOMAIN map

(***************************************************************************)
(* Strings used by the route types and the generated inputs.               *)
(***************************************************************************)
S_slash == Str(<< "/" >>)
S_hello == Str(<< "h", "e", "l", "l", "o" >>)
S_goodbye == Str(<< "g", "o", "o", "d", "b", "y", "e" >>)
S_style_css == Str(<< "s", "t", "y", "l", "e", ".", "c", "s", "s" >>)
S_foo == Str(<< "f", "o", "o" >>)
S_bar == Str(<< "b", "a", "r" >>)
S_readiness == Str(<< "r", "e", "a", "d", "i", "n", "e", "s", "s" >>)
S_poll == Str(<< "p", "o", "l", "l" >>)
S_refresh == Str(<< "r", "e", "f", "r", "e", "s", "h" >>)
S_force == Str(<< "f", "o", "r", "c", "e" >>)
S_true == Str(<< "t", "r", "u", "e" >>)
S_false == Str(<< "f", "a", "l", "s", "e" >>)
S_alice == Str(<< "a", "l", "i", "c", "e" >>)
S_a == Str(<< "a" >>)
S_dash_a == Str(<< "-", "a" >>)
S_k == Str(<< "k" >>)
S_v == Str(<< "v" >>)
S_amp == Str(<< "&" >>)
S_eq == Str(<< "=" >>)
S_pct41 == Str(<< "%", "4", "1" >>)
S_pct2F == Str(<< "%", "2", "F" >>)
S_pct00 == Str(<< "%", "0", "0" >>)
S_fortytwo == Str(<< "f", "o", "r", "t", "y", "t", "w", "o" >>)
S_42 == Str(<< "4", "2" >>)
\* "a/?# " followed by U+05E9: a slash, a question mark, a hash, a space and
\* a non-ASCII letter inside one segment.
S_special == Str(<< "a", "/", "?", "#", " " >>) \o << 1513 >>

\* n dashes.
Dashes(n) == [i \in 1..n |-> Ord("-")]

\* The sequences of at most n elements of S.
SeqsUpTo(S, n) == UNION {[1..k -> S] : k \in 0..n}

\* The strings of ss joined by the character c.
RECURSIVE Join(_, _)
Join(ss, c) ==
  IF ss = <<>> THEN <<>>
  ELSE IF Len(ss) = 1 THEN ss[1]
  ELSE ss[1] \o << c >> \o Join(Tail(ss), c)

(***************************************************************************)
(* route_parse.rs: what #[derive(Route)] makes of an enum.                 *)
(*                                                                         *)
(* A RouteValue is a literal or a field (with the RoutePiece type of the   *)
(* variant's field it binds); a Seg is a RouteValue; a Query is a key with *)
(* an optional RouteValue; a Route is a variant's name with its path and   *)
(* query; a route type (Routes) is the sequence of its variants in the     *)
(* order of their declaration.                                             *)
(***************************************************************************)
Literal(s) == [kind |-> "Literal", lit |-> s, typ |-> ""]
Field(typ) == [kind |-> "Field", lit |-> <<>>, typ |-> typ]
Query(key, value) ==
  IF value.some
  THEN [key |-> key, kind |-> value.val.kind, lit |-> value.val.lit, typ |-> value.val.typ]
  ELSE [key |-> key, kind |-> "None", lit |-> <<>>, typ |-> ""]
RouteOf(ident, path, query) == [ident |-> ident, path |-> path, query |-> query]

\* tests/deriving.rs: enum MyRoute, as Routes::parse compiles it.
MyRoute ==
  << RouteOf("Home", <<>>, <<>>),                                   \* "/"
     RouteOf("Style", << Literal(S_style_css) >>, <<>>),            \* "style.css"
     RouteOf("Hello", << Literal(S_hello), Field("String") >>, <<>>), \* "hello/{name}"
     RouteOf("Foo", << Literal(S_foo) >>,
             << Query(S_bar, Some(Field("i32"))) >>),               \* "foo?bar={bar}"
     RouteOf("Goodbye", << Literal(S_goodbye), Field("String") >>, <<>>), \* "/goodbye/{}"
     RouteOf("Readiness", <<>>, << Query(S_readiness, None) >>),    \* "/?readiness"
     RouteOf("Poll", <<>>, << Query(S_poll, Some(Field("bool"))) >>), \* "/?poll={}"
     RouteOf("Refresh", << Literal(S_refresh) >>,
             << Query(S_force, Some(Literal(S_true))) >>) >>        \* "/refresh?force=true"

\* The same variants declared in the opposite order: an enum in which the
\* templates with a query come before the template "/" that MyRoute declares
\* first.
MyRouteRev == [i \in 1..Len(MyRoute) |-> MyRoute[Len(MyRoute) + 1 - i]]

\* The route types of the model: PlainRoute (lib.rs) and the derived enums.
DerivedTypes == {"MyRoute", "MyRouteRev"}
RouteTypes == {"PlainRoute"} \cup DerivedTypes
Routes(typ) == IF typ = "MyRoute" THEN MyRoute ELSE MyRouteRev

\* The number of fields among the first n entries of a path or query.
RECURSIVE FieldCount(_, _)
FieldCount(entries, n) ==
  IF n = 0 THEN 0
  ELSE FieldCount(entries, n - 1) + (IF entries[n].kind = "Field" THEN 1 ELSE 0)

\* A value of a derived route type: the variant and its fields, the fields of
\* the path before those of the query (PathAndQuery::patterns).
Variant(ident, fields) == [variant |-> ident, fields |-> fields]

\* The generated path(): Seg::path_arm_stmts for every segment, then
\* normalize_render_path (gen_impl, lines 58-64).
derived_path(t, route) ==
  normalize_render_path(
    [i \in 1..Len(t.path) |->
       IF t.path[i].kind = "Literal" THEN t.path[i].lit
       ELSE render_route_piece(route.fields[FieldCount(t.path, i)])])

\* A query() that is Some also when the template has no query entry.
derived_query_some(t, route) ==
  Some([i \in 1..Len(t.query) |->
          CASE t.query[i].kind = "None" -> Pair(t.query[i].key, None)
            [] t.query[i].kind = "Literal" ->
                 Pair(t.query[i].key, Some(t.query[i].lit))
            [] t.query[i].kind = "Field" ->
                 Pair(t.query[i].key,
                      Some(render_route_piece(
                        route.fields[FieldCount(t.path, Len(t.path))
                                     + FieldCount(t.query, i)])))])

\* The generated query(): Query::stmts for every pair, None when there is no
\* pair (gen_impl, lines 66-76).
derived_query(t, route) ==
  LET res == [i \in 1..Len(t.query) |->
                CASE t.query[i].kind = "None" -> Pair(t.query[i].key, None)
                  [] t.query[i].kind = "Literal" ->
                       Pair(t.query[i].key, Some(t.query[i].lit))
                  [] t.query[i].kind = "Field" ->
                       Pair(t.query[i].key,
                            Some(render_route_piece(
                              route.fields[FieldCount(t.path, Len(t.path))
                                           + FieldCount(t.query, i)])))]
  IN IF res = <<>> THEN None ELSE Some(res)

\* Path statements without the check that no segment is left.
RECURSIVE parse_path_stmts_prefix(_, _, _, _)
parse_path_stmts_prefix(segs, path, i, fields) ==
  IF i > Len(segs) THEN Some(fields)
  ELSE IF i > Len(path) THEN None
  ELSE IF segs[i].kind = "Literal"
    THEN IF path[i] # segs[i].lit THEN None
         ELSE parse_path_stmts_prefix(segs, path, i + 1, fields)
  ELSE LET piece == parse_route_piece(segs[i].typ, path[i]) IN
    IF ~piece.some THEN None
    ELSE parse_path_stmts_prefix(segs, path, i + 1, Append(fields, piece.val))

\* The statements Seg::gen_parse generates, run from entry i on with the
\* iterator `path` at its i-th segment: a literal and a field both take the
\* next segment (path.next()?), and after the last entry no segment may be
\* left (gen_parse_block, line 197). Some(fields bound) or None.
RECURSIVE parse_path_stmts(_, _, _, _)
parse_path_stmts(segs, path, i, fields) ==
  IF i > Len(segs)
  THEN IF i <= Len(path) THEN None ELSE Some(fields)
  ELSE IF i > Len(path) THEN None
  ELSE IF segs[i].kind = "Literal"
    THEN IF path[i] # segs[i].lit THEN None
         ELSE parse_path_stmts(segs, path, i + 1, fields)
  ELSE LET piece == parse_route_piece(segs[i].typ, path[i]) IN
    IF ~piece.some THEN None
    ELSE parse_path_stmts(segs, path, i + 1, Append(fields, piece.val))

\* The statements Query::gen_parse generates, run from entry i on.
RECURSIVE parse_query_stmts(_, _, _, _)
parse_query_stmts(entries, map, i, fields) ==
  IF i > Len(entries) THEN Some(fields)
  ELSE IF entries[i].kind = "None"
    THEN IF ~contains(map, entries[i].key) THEN None
         ELSE parse_query_stmts(entries, map, i + 1, fields)
  ELSE LET single == get_single(map, entries[i].key) IN
    IF ~single.some THEN None
    ELSE IF entries[i].kind = "Literal"
      THEN IF single.val # entries[i].lit THEN None
           ELSE parse_query_stmts(entries, map, i + 1, fields)
    ELSE LET piece == parse_route_piece(entries[i].typ, single.val) IN
      IF ~piece.some THEN None
      ELSE parse_query_stmts(entries, map, i + 1, Append(fields, piece.val))

\* The closure of Route::gen_parse_block for the variant t: Some(route) or None.
gen_parse_block(t, path, map) ==
  LET p == parse_path_stmts(t.path, path, 1, <<>>) IN
    IF ~p.some THEN None
    ELSE LET q == parse_query_stmts(t.query, map, 1, p.val) IN
      IF ~q.some THEN None ELSE Some(Variant(t.ident, q.val))

\* The variant of a route type that a value belongs to.
RouteOfValue(typ, route) ==
  LET rs == Routes(typ) IN rs[CHOOSE i \in 1..Len(rs) : rs[i].ident = route.variant]

(***************************************************************************)
(* lib.rs: PlainRoute and the Route trait.                                 *)
(***************************************************************************)
PlainRoute(path, query) == [path |-> path, query |-> query]

\* Route::path.
route_path(typ, route) ==
  IF typ = "PlainRoute" THEN normalize_render_path(route.path)
  ELSE derived_path(RouteOfValue(typ, route), route)

\* Route::query.
route_query(typ, route) ==
  IF typ = "PlainRoute" THEN route.query
  ELSE derived_query(RouteOfValue(typ, route), route)

\* Route::render.
render(typ, route) == render_path_and_query(route_path(typ, route), route_query(typ, route))

(***************************************************************************)
(* The inputs of the model.                                                *)
(***************************************************************************)
\* Decoded segments, also the values of String fields: the runs of 0 to
\* MaxDash dashes and some strings that hold another character.
SegVocab == {Dashes(n) : n \in 0..MaxDash} \cup {S_a, S_dash_a, S_special, S_pct41}

\* Decoded query pairs.
PairVocab == {Pair(k, v) : k \in {<<>>, S_k}, v \in {None, Some(<<>>), Some(S_v), Some(S_amp)}}

\* PlainRoute values: any path without query, and a short path with any query.
PlainRoutes ==
  {PlainRoute(p, None) : p \in SeqsUpTo(SegVocab, MaxSegs)}
    \cup {PlainRoute(p, Some(q)) : p \in {<<>>, << S_a >>}, q \in SeqsUpTo(PairVocab, MaxPairs)}

\* Values of i32 fields.
I32Vocab == {0, 42, -7, I32Max, I32Min}

\* The values of MyRoute (and of MyRouteRev, which has the same variants).
DerivedRoutes ==
  {Variant(v, <<>>) : v \in {"Home", "Style", "Readiness", "Refresh"}}
    \cup {Variant(v, << StringPiece(x) >>) : v \in {"Hello", "Goodbye"}, x \in SegVocab}
    \cup {Variant("Foo", << I32Piece(n) >>) : n \in I32Vocab}
    \cup {Variant("Poll", << BoolPiece(b) >>) : b \in BOOLEAN}

\* Undecoded path segments of a request.
RawSegs == {<<>>, S_hello, S_goodbye, S_style_css, S_alice, Dashes(1), S_pct2F}

\* Requests without query: at most MaxSegs raw segments, with or without the
\* leading slash.
PathRequests ==
  {lead \o Join(segs, Ord("/")) : lead \in {<<>>, S_slash}, segs \in SeqsUpTo(RawSegs, MaxSegs)}

\* Undecoded query pairs of a request.
RawPairs ==
  { Str(<< "r", "e", "a", "d", "i", "n", "e", "s", "s" >>),
    Str(<< "r", "e", "a", "d", "i", "n", "e", "s", "s", "=", "x" >>),
    Str(<< "p", "o", "l", "l", "=", "t", "r", "u", "e" >>),
    Str(<< "p", "o", "l", "l", "=", "n", "o" >>),
    Str(<< "b", "a", "r", "=", "4", "2" >>),
    Str(<< "b", "a", "r", "=", "f", "o", "r", "t", "y", "t", "w", "o" >>),
    Str(<< "b", "a", "r" >>),
    Str(<< "f", "o", "r", "c", "e", "=", "t", "r", "u", "e" >>),
    Str(<< "f", "o", "r", "c", "e", "=", "n", "o" >>),
    Str(<< "f", "o", "o" >>) }

\* The paths of the requests that carry a query.
QueryPaths ==
  { Str(<< "/" >>),
    Str(<< "f", "o", "o" >>),
    Str(<< "/", "r", "e", "f", "r", "e", "s", "h" >>),
    Str(<< "/", "s", "t", "y", "l", "e", ".", "c", "s", "s" >>) }

\* Requests with a query of at most MaxPairs pairs.
QueryRequests ==
  {p \o << Ord("?") >> \o Join(ps, Ord("&")) : p \in QueryPaths, ps \in SeqsUpTo(RawPairs, MaxPairs)}

\* Requests of the tests and the documentation.
X_parse_normalize == Str(<< "/", "/", "f", "o", "o", "/", "b", "a", "r", "/", "/", "b", "a", "z", "/", "/", "/", "b", "i", "n", "/" >>)
X_not_exist == Str(<< "/", "d", "o", "e", "s", "/", "n", "o", "t", "/", "e", "x", "i", "s", "t" >>)
X_not_exist_slash == Str(<< "/", "d", "o", "e", "s", "/", "n", "o", "t", "/", "e", "x", "i", "s", "t", "/" >>)
X_hello_alice_slash == Str(<< "/", "h", "e", "l", "l", "o", "/", "a", "l", "i", "c", "e", "/" >>)
X_double_slash == Str(<< "/", "f", "o", "o", "/", "/", "b", "a", "r" >>)
X_trailing_slash == Str(<< "/", "f", "o", "o", "/", "b", "a", "r", "/" >>)
X_question_in_query == Str(<< "/", "f", "o", "o", "/", "?", "b", "a", "r", "=", "b", "a", "z", "?" >>)
X_hello_alice_alice == Str(<< "/", "h", "e", "l", "l", "o", "/", "a", "l", "i", "c", "e", "/", "a", "l", "i", "c", "e" >>)
\* Requests with an empty segment and a percent sign, an ampersand or an
\* equals sign percent-encoded.
X_empty_amp == Str(<< "/", "f", "o", "o", "/", "?", "b", "a", "r", "=", "%", "2", "6" >>)
X_empty_eq == Str(<< "/", "/", "f", "o", "o", "?", "b", "a", "r", "=", "%", "3", "D", "4", "2" >>)
X_empty_pct_query == Str(<< "/", "h", "e", "l", "l", "o", "/", "/", "?", "k", "=", "%", "2", "5", "4", "1" >>)
X_empty_pct_path == Str(<< "/", "h", "e", "l", "l", "o", "/", "/", "%", "2", "5", "4", "1" >>)
X_empty_bare == Str(<< "/", "h", "e", "l", "l", "o", "/", "a", "l", "i", "c", "e", "/", "?" >>)
\* Other spellings of "/foo?bar=42" and "/hello/alice".
X_plus_42 == Str(<< "/", "f", "o", "o", "?", "b", "a", "r", "=", "+", "4", "2" >>)
X_zero_42 == Str(<< "/", "f", "o", "o", "?", "b", "a", "r", "=", "0", "4", "2" >>)
X_encoded_alice == Str(<< "/", "h", "e", "l", "l", "o", "/", "%", "6", "1", "l", "i", "c", "e" >>)
ExampleRequests ==
  { X_plus_42,
    X_zero_42,
    X_encoded_alice,
    X_empty_amp,
    X_empty_eq,
    X_empty_pct_query,
    X_empty_pct_path,
    X_empty_bare,
    X_parse_normalize,
    X_not_exist,
    X_not_exist_slash,
    X_hello_alice_slash,
    X_double_slash,
    X_trailing_slash,
    X_question_in_query,
    X_hello_alice_alice }

\* Requests with percent sequences that are cut short, are not hexadecimal or
\* do not decode to UTF-8.
MalformedRequests ==
  { Str(<< "/", "%" >>),
    Str(<< "/", "%", "4" >>),
    Str(<< "/", "%", "z", "z" >>),
    Str(<< "/", "%", "F", "F" >>),
    Str(<< "/", "h", "e", "l", "l", "o", "/", "%", "F", "F" >>),
    Str(<< "/", "h", "e", "l", "l", "o", "/", "%", "C", "3" >>),
    Str(<< "/", "h", "e", "l", "l", "o", "/", "%", "E", "2", "%", "8", "2" >>),
    Str(<< "/", "h", "e", "l", "l", "o", "/", "%", "4", "1", "%" >>),
    Str(<< "f", "o", "o", "?", "b", "a", "r", "=", "%", "F", "F" >>),
    Str(<< "/", "?", "p", "o", "l", "l", "=", "%" >>),
    Str(<< "/", "?", "%" >>),
    Str(<< "/", "s", "t", "y", "l", "e", ".", "c", "s", "s", "?", "%", "z", "z", "=", "%", "C", "3" >>) }

Requests == PathRequests \cup QueryRequests \cup ExampleRequests \cup MalformedRequests

\* The arguments of Route::parse_strs: a path, and a query string with or
\* without its leading '?'.
StrsPairs ==
  { Str(<< "r", "e", "a", "d", "i", "n", "e", "s", "s" >>),
    Str(<< "b", "a", "r", "=", "4", "2" >>),
    Str(<< "f", "o", "o" >>) }
StrsQueries ==
  {lead \o Join(ps, Ord("&")) : lead \in {<<>>, Str(<< "?" >>)}, ps \in SeqsUpTo(StrsPairs, MaxPairs)}

\* Arguments of direct calls of the Normalization methods.
SegmentLists == SeqsUpTo(SegVocab, MaxSegs)
SegmentQueries == {None, Some(<<>>), Some(<< Pair(S_k, Some(S_v)) >>)}

(***************************************************************************)
(* The state machine: one call sequence on one input.                      *)
(*                                                                         *)
(*   a route value:  "value" -Render-> "wire" -ParseStr-> ...              *)
(*   a request:      "wire" -ParseStr-> "match" -TryRoute*-> "done"        *)
(*   segments:       "segs" -NormalizeRenderPath-> "segs_r"                *)
(*                          -NormalizeParse-> "segs_rp", and               *)
(*                   "segs" -NormalizeParse-> "segs_p"                     *)
(*                          -NormalizeRenderPath-> "segs_pr"               *)
(***************************************************************************)
VARIABLES
  input,   \* what the caller passed: a route value, a request or segments
  pc,      \* the position in the call sequence
  wire,    \* the rendered route, or the request being parsed
  path,    \* the path segments in hand
  query,   \* the query pairs in hand (an Option)
  qmap,    \* the QueryMap the generated parse() built
  idx,     \* the variant whose parse block runs next
  result,  \* what the last parsing call returned
  called,  \* the method of Dispatch a binding called, with its route
  response \* the response a binding returned

vars == << input, pc, wire, path, query, qmap, idx, result, called, response >>

\* No method of Dispatch was called; no response was returned.
NotCalled == [fn |-> "none"]
NoResponse == [tag |-> "None"]

Pending == [tag |-> "Pending"]

InitRoute ==
  /\ \E typ \in RouteTypes :
       \E route \in (IF typ = "PlainRoute" THEN PlainRoutes ELSE DerivedRoutes) :
         input = [kind |-> "route", typ |-> typ, route |-> route]
  /\ pc = "value"
  /\ wire = <<>>
  /\ path = <<>>
  /\ query = None

InitRequest ==
  /\ \E typ \in RouteTypes : \E s \in Requests :
       /\ input = [kind |-> "request", typ |-> typ, str |-> s]
       /\ wire = s
  /\ pc = "wire"
  /\ path = <<>>
  /\ query = None

InitSegments ==
  /\ \E p \in SegmentLists : \E q \in SegmentQueries :
       /\ input = [kind |-> "segments", path |-> p, query |-> q]
       /\ path = p
       /\ query = q
  /\ pc = "segs"
  /\ wire = <<>>

InitStrs ==
  /\ \E typ \in RouteTypes : \E p \in QueryPaths : \E q \in StrsQueries :
       input = [kind |-> "strs", typ |-> typ, path |-> p, query |-> q]
  /\ pc = "strs"
  /\ wire = <<>>
  /\ path = <<>>
  /\ query = None

Init ==
  /\ InitRoute \/ InitRequest \/ InitSegments \/ InitStrs
  /\ qmap = <<>>
  /\ idx = 0
  /\ result = Pending
  /\ called = NotCalled
  /\ response = NoResponse

\* Route::render on the route value.
Render ==
  /\ UNCHANGED << called, response >>
  /\ pc = "value"
  /\ wire' = render(input.typ, input.route)
  /\ pc' = "wire"
  /\ UNCHANGED << input, path, query, qmap, idx, result >>

\* A parse that tries the parse blocks on the path as it came and returns
\* NoMatch when none gives a route, before it normalizes.
ParseMatchFirst(p, q) ==
  LET n == normalize_parse(p, q) IN
    IF /\ input.typ \in DerivedTypes
       /\ \A i \in 1..Len(Routes(input.typ)) :
            ~gen_parse_block(Routes(input.typ)[i], p, from_query_iter(q)).some
    THEN /\ result' = NoMatch
         /\ pc' = "done"
         /\ UNCHANGED << path, query, qmap, idx >>
    ELSE IF n.tag = "Err"
    THEN /\ result' = NormalizationFailed(n.target)
         /\ pc' = "done"
         /\ UNCHANGED << path, query, qmap, idx >>
    ELSE IF input.typ = "PlainRoute"
    THEN /\ result' = Ok(PlainRoute(n.path, n.query))
         /\ pc' = "done"
         /\ UNCHANGED << path, query, qmap, idx >>
    ELSE /\ path' = n.path
         /\ query' = n.query
         /\ qmap' = from_query_iter(n.query)
         /\ idx' = 1
         /\ pc' = "match"
         /\ UNCHANGED result

\* Route::parse of the route type of the input, on the path p and the
\* query q, up to its first parse block: normalize_parse, with its error
\* mapped to NormalizationFailed, and for PlainRoute the whole parse; for a
\* derived type the QueryMap is built and the first block is next.
Parse(p, q) ==
  LET n == normalize_parse(p, q) IN
    IF n.tag = "Panic"
    THEN /\ result' = Panic
         /\ pc' = "done"
         /\ UNCHANGED << path, query, qmap, idx >>
    ELSE IF n.tag = "Err"
    THEN /\ result' = NormalizationFailed(n.target)
         /\ pc' = "done"
         /\ UNCHANGED << path, query, qmap, idx >>
    ELSE IF input.typ = "PlainRoute"
    THEN /\ result' = Ok(PlainRoute(n.path, n.query))
         /\ pc' = "done"
         /\ UNCHANGED << path, query, qmap, idx >>
    ELSE /\ path' = n.path
         /\ query' = n.query
         /\ qmap' = from_query_iter(n.query)
         /\ idx' = 1
         /\ pc' = "match"
         /\ UNCHANGED result

\* Route::parse_str: parse_path_and_query, then Self::parse.
ParseStr ==
  /\ UNCHANGED << called, response >>
  /\ pc = "wire"
  /\ Parse(parse_path_and_query(wire).path, parse_path_and_query(wire).query)
  /\ UNCHANGED << input, wire >>

\* str::strip_prefix('?').unwrap_or(query).
strip_prefix(q) == IF q # <<>> /\ q[1] = Ord("?") THEN Tail(q) ELSE q

\* The query Route::parse_strs hands to Self::parse (lib.rs lines 68-73).
parse_strs_query(q) ==
  IF q = <<>> THEN Some(parse_query(strip_prefix(q))) ELSE None

\* Route::parse_strs: parse_path on the path, the query as above, then
\* Self::parse.
ParseStrs ==
  /\ UNCHANGED << called, response >>
  /\ pc = "strs"
  /\ Parse(parse_path(input.path), parse_strs_query(input.query))
  /\ UNCHANGED << input, wire >>

\* A matcher that runs every block and returns the last route given.
TryRouteLastWins ==
  /\ UNCHANGED << called, response >>
  /\ pc = "match"
  /\ idx <= Len(Routes(input.typ))
  /\ LET r == gen_parse_block(Routes(input.typ)[idx], path, qmap)
         res == IF r.some THEN Ok(r.val) ELSE result
     IN /\ result' = res
        /\ IF idx = Len(Routes(input.typ)) /\ res.tag = "Ok"
           THEN pc' = "done" /\ UNCHANGED idx
           ELSE idx' = idx + 1 /\ UNCHANGED pc
  /\ UNCHANGED << input, wire, path, query, qmap >>

\* A matcher that gives up with NoMatch when the text of a field of the block
\* in hand does not convert.
TryRouteAbortOnField ==
  /\ UNCHANGED << called, response >>
  /\ pc = "match"
  /\ idx <= Len(Routes(input.typ))
  /\ LET t == Routes(input.typ)[idx]
         r == gen_parse_block(t, path, qmap)
         bad == \/ \E i \in 1..Len(t.path) :
                     /\ t.path[i].kind = "Field" /\ i <= Len(path)
                     /\ ~parse_route_piece(t.path[i].typ, path[i]).some
                \/ \E i \in 1..Len(t.query) :
                     /\ t.query[i].kind = "Field"
                     /\ get_single(qmap, t.query[i].key).some
                     /\ ~parse_route_piece(t.query[i].typ,
                                           get_single(qmap, t.query[i].key).val).some
     IN IF r.some
        THEN result' = Ok(r.val) /\ pc' = "done" /\ UNCHANGED idx
        ELSE IF bad
        THEN result' = NoMatch /\ pc' = "done" /\ UNCHANGED idx
        ELSE idx' = idx + 1 /\ UNCHANGED << result, pc >>
  /\ UNCHANGED << input, wire, path, query, qmap >>

\* One parse block of the generated parse(): the route is returned when the
\* block's closure gives one, the next block runs otherwise.
TryRoute ==
  /\ UNCHANGED << called, response >>
  /\ pc = "match"
  /\ idx <= Len(Routes(input.typ))
  /\ LET r == gen_parse_block(Routes(input.typ)[idx], path, qmap) IN
       IF r.some
       THEN /\ result' = Ok(r.val)
            /\ pc' = "done"
            /\ UNCHANGED idx
       ELSE /\ idx' = idx + 1
            /\ UNCHANGED << result, pc >>
  /\ UNCHANGED << input, wire, path, query, qmap >>

\* The end of the generated parse(): Err(RouteError::NoMatch).
ReturnNoMatch ==
  /\ UNCHANGED << called, response >>
  /\ pc = "match"
  /\ idx > Len(Routes(input.typ))
  /\ result' = NoMatch
  /\ pc' = "done"
  /\ UNCHANGED << input, wire, path, query, qmap, idx >>

\* A direct call of Normalization::normalize_render_path, on the segments
\* given or on those a call of normalize_parse returned.
NormalizeRenderPath ==
  /\ UNCHANGED << called, response >>
  /\ \/ pc = "segs" /\ pc' = "segs_r"
     \/ pc = "segs_p" /\ result.tag = "Ok" /\ pc' = "segs_pr"
  /\ path' = normalize_render_path(path)
  /\ UNCHANGED << input, wire, query, qmap, idx, result >>

\* A direct call of Normalization::normalize_parse, on the segments given or
\* on those a call of normalize_render_path returned.
NormalizeParse ==
  /\ UNCHANGED << called, response >>
  /\ \/ pc = "segs" /\ pc' = "segs_p"
     \/ pc = "segs_r" /\ pc' = "segs_rp"
  /\ LET n == normalize_parse(path, query) IN
       /\ result' = n
       /\ IF n.tag = "Ok"
          THEN path' = n.path /\ query' = n.query
          ELSE UNCHANGED << path, query >>
  /\ UNCHANGED << input, wire, qmap, idx >>

Next ==
  \/ Render
  \/ ParseStr
  \/ ParseStrs
  \/ TryRoute
  \/ ReturnNoMatch
  \/ NormalizeRenderPath
  \/ NormalizeParse

Spec == Init /\ [][Next]_vars

(***************************************************************************)
(* The codec and the QueryMap called directly: raw.rs is a public module   *)
(* and QueryMap a public type.                                             *)
(*                                                                         *)
(*   a text:    "text" -ParsePathAndQuery-> "parsed"                       *)
(*              "text" -ParsePath-> "path"                                 *)
(*              "text" -ParseQuery-> "query"                               *)
(*   pieces:    "pieces" -RenderPathAndQuery-> "rendered"                  *)
(*                       -ParsePathAndQuery-> "reparsed"                   *)
(*   pairs:     "pairs" -FromQueryIter-> "map"                             *)
(***************************************************************************)
MaxText == 3
MaxMapPairs == 3

\* Pieces the texts are put together from.
TextPieces ==
  { S_slash, S_a, S_foo, S_pct2F,
    Str(<< "?" >>), Str(<< "=" >>), Str(<< "&" >>),
    Str(<< "k", "e", "y" >>), Str(<< "%", "2", "f" >>) }

\* Texts of the documentation and the tests of raw.rs.
T_key == Str(<< "k", "e", "y" >>)
T_key_eq == Str(<< "k", "e", "y", "=" >>)
T_foo_bar == Str(<< "/", "f", "o", "o", "/", "b", "a", "r" >>)
T_foo_bar_q == Str(<< "/", "f", "o", "o", "/", "b", "a", "r", "?" >>)
T_slashes == Str(<< "f", "o", "o", "/", "/", "b", "a", "r", "/" >>)
T_two_slashes == Str(<< "/", "/", "f", "o", "o" >>)
T_missing == Str(<< "f", "o", "o", "&", "b", "a", "r", "=", "&", "b", "a", "z", "=", "b", "i", "n" >>)
ExampleTexts ==
  { T_foo_bar, T_foo_bar_q, T_slashes, T_two_slashes, T_missing, X_question_in_query }

Texts == {Concat(t) : t \in SeqsUpTo(TextPieces, MaxText)} \cup ExampleTexts

\* Decoded segments and pairs handed to render_path_and_query.
S_world == Str(<< "w", "o", "r", "l", "d" >>)
CodecSegs == {<<>>, S_a, S_hello, S_world, S_special, S_pct41, S_pct2F, Dashes(1)}
CodecPairs ==
  {Pair(k, v) : k \in {<<>>, S_k, S_eq},
                v \in {None, Some(<<>>), Some(S_v), Some(S_amp), Some(S_eq), Some(S_pct00)}}
\* The query of a documentation test of render_path_and_query.
Q_missing ==
  << Pair(S_foo, None), Pair(S_bar, Some(<<>>)),
     Pair(Str(<< "b", "a", "z" >>), Some(Str(<< "b", "i", "n" >>))) >>
CodecPieces ==
  {[path |-> p, query |-> None] : p \in SeqsUpTo(CodecSegs, MaxSegs)}
    \cup {[path |-> p, query |-> Some(q)] :
            p \in {<<>>, << <<>> >>, << S_hello, S_world >>}, q \in SeqsUpTo(CodecPairs, MaxPairs)}
    \cup {[path |-> <<>>, query |-> Some(Q_missing)]}

\* Queries handed to QueryMap::from_query_iter.
MapPairs == {Pair(k, v) : k \in {S_k, S_v}, v \in {None, Some(<<>>), Some(S_v)}}
MapQueries == {None} \cup {Some(q) : q \in SeqsUpTo(MapPairs, MaxMapPairs)}

CodecInit ==
  /\ \/ \E s \in Texts :
          /\ input = [kind |-> "text", str |-> s]
          /\ wire = s /\ path = <<>> /\ query = None /\ pc = "text"
     \/ \E c \in CodecPieces :
          /\ input = [kind |-> "pieces", path |-> c.path, query |-> c.query]
          /\ wire = <<>> /\ path = c.path /\ query = c.query /\ pc = "pieces"
     \/ \E q \in MapQueries :
          /\ input = [kind |-> "pairs", query |-> q]
          /\ wire = <<>> /\ path = <<>> /\ query = q /\ pc = "pairs"
  /\ qmap = <<>>
  /\ idx = 0
  /\ result = Pending
  /\ called = NotCalled
  /\ response = NoResponse

\* A call of raw::parse_path_and_query, on a text or on what
\* render_path_and_query wrote.
ParsePathAndQuery ==
  /\ UNCHANGED << called, response >>
  /\ \/ pc = "text" /\ pc' = "parsed"
     \/ pc = "rendered" /\ pc' = "reparsed"
  /\ path' = parse_path_and_query(wire).path
  /\ query' = parse_path_and_query(wire).query
  /\ UNCHANGED << input, wire, qmap, idx, result >>

\* A call of raw::parse_path.
ParsePath ==
  /\ UNCHANGED << called, response >>
  /\ pc = "text"
  /\ pc' = "path"
  /\ path' = parse_path(wire)
  /\ UNCHANGED << input, wire, query, qmap, idx, result >>

\* A call of raw::parse_query.
ParseQuery ==
  /\ UNCHANGED << called, response >>
  /\ pc = "text"
  /\ pc' = "query"
  /\ query' = Some(parse_query(wire))
  /\ UNCHANGED << input, wire, path, qmap, idx, result >>

\* A call of raw::render_path_and_query.
RenderPathAndQuery ==
  /\ UNCHANGED << called, response >>
  /\ pc = "pieces"
  /\ pc' = "rendered"
  /\ wire' = render_path_and_query(path, query)
  /\ UNCHANGED << input, path, query, qmap, idx, result >>

\* A call of QueryMap::from_query_iter.
FromQueryIter ==
  /\ UNCHANGED << called, response >>
  /\ pc = "pairs"
  /\ pc' = "map"
  /\ qmap' = from_query_iter(query)
  /\ UNCHANGED << input, wire, path, query, idx, result >>

CodecNext ==
  \/ ParsePathAndQuery
  \/ ParsePath
  \/ ParseQuery
  \/ RenderPathAndQuery
  \/ FromQueryIter

CodecSpec == CodecInit /\ [][CodecNext]_vars

(***************************************************************************)
(* Properties.                                                             *)
(***************************************************************************)
\* The call sequence started from a route value of a route type in types and
\* has returned from parse_str.
RoundTripDone(types) == input.kind = "route" /\ input.typ \in types /\ pc = "done"

\* The call sequence started from a request and has returned from parse_str.
RequestDone(types) == input.kind = "request" /\ input.typ \in types /\ pc = "done"

\* Whether a segment is a run of dashes (the empty string is the run of none).
IsDashes(s) == s = Dashes(Len(s))

NotEmpty(s) == s # <<>>
HasEmptySegment(p) == \E i \in 1..Len(p) : p[i] = <<>>

\* C1: for every value v of the derived route type MyRoute, with any field
\* values, parse_str(render(v)) returns Ok(v).
C1_DerivedRoundTrip ==
  RoundTripDone({"MyRoute"}) => result = Ok(input.route)

\* C2: for every PlainRoute value v whose query is not the single pair
\* ("", None), PlainRoute::parse_str(v.render()) returns Ok(v).
C2_PlainRoundTrip ==
  (RoundTripDone({"PlainRoute"}) /\ input.route.query # Some(<< Pair(<<>>, None) >>))
    => result = Ok(input.route)

\* C3: for every PlainRoute value and every value of a derived route type, the
\* rendered string has no empty path segment and parsing it never returns
\* NormalizationFailed.
C3_RenderIsCanonical ==
  input.kind = "route" =>
    /\ pc # "value" => ~HasEmptySegment(parse_path_and_query(wire).path)
    /\ result.tag # "NormalizationFailed"

\* C3 witness: a PlainRoute whose path holds an empty segment and a segment
\* with a slash was rendered and parsed again.
C3_Witness ==
  /\ RoundTripDone({"PlainRoute"})
  /\ input.route.path = << <<>>, S_special >>
  /\ wire = Str(<< "/", "-", "/", "a", "%", "2", "F", "%", "3", "F", "%", "2", "3",
                   "%", "2", "0", "%", "D", "7", "%", "A", "9" >>)
  /\ result.tag = "Ok"

\* C4: normalize_parse returns Err(target) exactly when a segment of its
\* argument is empty, and target is then render_path_and_query of the other
\* segments, in order and as they are, with the query of the argument; so for
\* the requests "//foo/bar//baz///bin/" and "/foo/bar/" and the segments [""].
C4_NormalizeParseError ==
  /\ pc = "segs_p" =>
       /\ result.tag = "Err" <=> HasEmptySegment(input.path)
       /\ result.tag = "Err" =>
            result.target
              = render_path_and_query(SelectSeq(input.path, NotEmpty), input.query)
       /\ input.path = << <<>> >> /\ input.query = None
            => result = NormErr(S_slash)
  /\ RequestDone(RouteTypes) =>
       LET pq == parse_path_and_query(input.str) IN
         /\ result.tag = "NormalizationFailed" <=> HasEmptySegment(pq.path)
         /\ result.tag = "NormalizationFailed" =>
              result.target = render_path_and_query(SelectSeq(pq.path, NotEmpty), pq.query)
         /\ input.str = X_parse_normalize =>
              result = NormalizationFailed(
                         Str(<< "/", "f", "o", "o", "/", "b", "a", "r", "/", "b", "a", "z",
                                "/", "b", "i", "n" >>))
         /\ input.str = X_trailing_slash =>
              result = NormalizationFailed(Str(<< "/", "f", "o", "o", "/", "b", "a", "r" >>))

\* C4 witness: normalize_parse was called with a run of two dashes, an empty
\* segment and a query, and returned the two dashes and the query as target.
C4_Witness ==
  /\ pc = "segs_p"
  /\ input.path = << Dashes(2), <<>> >>
  /\ input.query = Some(<< Pair(S_k, Some(S_v)) >>)
  /\ result = NormErr(Str(<< "/", "-", "-", "?", "k", "=", "v" >>))

\* C5: normalize_render_path turns a segment of n dashes (n >= 0) into n + 1
\* dashes and normalize_parse a segment of n + 1 dashes into n dashes, both
\* leave every other segment as it is, normalize_parse after
\* normalize_render_path returns Ok of the original segments (and query), and
\* normalize_render_path after a successful normalize_parse gives the
\* original segments.
C5_DashEscapeBijection ==
  /\ pc = "segs_r" =>
       /\ Len(path) = Len(input.path)
       /\ \A i \in 1..Len(path) :
            path[i] = IF IsDashes(input.path[i]) THEN Dashes(Len(input.path[i]) + 1)
                      ELSE input.path[i]
  /\ pc = "segs_rp" => result = NormOk(input.path, input.query)
  /\ (pc = "segs_p" /\ result.tag = "Ok") =>
       /\ Len(path) = Len(input.path)
       /\ \A i \in 1..Len(path) :
            path[i] = IF IsDashes(input.path[i]) THEN Dashes(Len(input.path[i]) - 1)
                      ELSE input.path[i]
  /\ pc = "segs_p" => (result.tag = "Ok" <=> ~HasEmptySegment(input.path))
  /\ pc = "segs_pr" => path = input.path

\* C5 witness: the segments "----" (the general case of normalize_render_path)
\* and "" (its first case) were escaped and parsed back.
C5_Witness ==
  /\ pc = "segs_rp"
  /\ input.path = << Dashes(4), <<>> >>
  /\ result = NormOk(<< Dashes(4), <<>> >>, input.query)

\* The derived parse() is past normalize_parse: its path, query and QueryMap
\* are those of the request.
Matching == input.kind \in {"route", "request"} /\ input.typ \in DerivedTypes
              /\ (pc = "match" \/ (pc = "done" /\ result.tag # "NormalizationFailed"))

\* What the parse block of the i-th declared variant gives on the request.
BlockResult(i) == gen_parse_block(Routes(input.typ)[i], path, qmap)
Declared == 1..Len(Routes(input.typ))

\* C6: the generated parse runs the parse blocks in the order of declaration
\* and returns the route of the first block that gives one: no block before
\* it gave a route, no block after it is run, and NoMatch is returned only
\* when no block gives a route.
C6_FirstDeclaredWins ==
  Matching =>
    /\ \A j \in Declared : j < idx => ~BlockResult(j).some
    /\ (pc = "done" /\ result.tag = "Ok") =>
         /\ idx \in Declared
         /\ result = Ok(BlockResult(idx).val)
    /\ (pc = "done" /\ result.tag = "NoMatch") => \A j \in Declared : ~BlockResult(j).some
    /\ pc = "done" => result.tag \in {"Ok", "NoMatch"}

\* C6 witness: "/?readiness" matches the templates of Home and of Readiness;
\* MyRoute declares Home first and Home is returned.
C6_Witness ==
  /\ RequestDone({"MyRoute"})
  /\ input.str = Str(<< "/", "?", "r", "e", "a", "d", "i", "n", "e", "s", "s" >>)
  /\ MyRoute[1].ident = "Home" /\ MyRoute[6].ident = "Readiness"
  /\ BlockResult(1).some /\ BlockResult(6).some
  /\ result = Ok(Variant("Home", <<>>))

\* C7: a parse block gives a route only when the path has exactly as many
\* segments as the template has path entries; a request that no template
\* matches, as "/does/not/exist", is answered Err(NoMatch).
C7_ExactPathLength ==
  Matching =>
    /\ \A i \in Declared :
         BlockResult(i).some => Len(path) = Len(Routes(input.typ)[i].path)
    /\ (pc = "done" /\ result.tag = "Ok") =>
         Len(path) = Len(RouteOfValue(input.typ, result.route).path)
    /\ (pc = "done" /\ \A i \in Declared : Len(path) # Len(Routes(input.typ)[i].path))
         => result = NoMatch
    /\ (pc = "done" /\ input.kind = "request" /\ input.str = X_not_exist)
         => result = NoMatch

\* C7 witness: "/hello/alice/alice" has one segment more than "hello/{name}"
\* and is answered NoMatch.
C7_Witness ==
  /\ RequestDone({"MyRoute"})
  /\ input.str = X_hello_alice_alice
  /\ path = << S_hello, S_alice, S_alice >>
  /\ result = NoMatch

\* The sequence s with e inserted after its first k elements.
InsertAt(s, k, e) == SubSeq(s, 1, k) \o << e >> \o SubSeq(s, k + 1, Len(s))

\* The keys a template refers to.
KeysOf(t) == {t.query[i].key : i \in 1..Len(t.query)}

\* Pairs to add to a request.
ExtraPairs ==
  {Pair(k, v) : k \in {<<>>, S_foo, S_bar, S_poll, S_readiness, S_force},
                v \in {None, Some(S_true)}}

\* The pairs of the query in hand.
Pairs == IF query.some THEN query.val ELSE <<>>

\* C8: for every template (MyRoute and MyRouteRev have the same ones), adding
\* a pair under a key the template does not refer to, anywhere in the query,
\* changes neither whether its parse block gives a route nor the route given;
\* "/style.css?foo" parses to Style.
C8_ExtraPairsIgnored ==
  /\ (Matching /\ input.typ = "MyRoute" /\ pc = "match" /\ idx = 1) =>
       \A e \in ExtraPairs : \A k \in 0..Len(Pairs) :
         LET more == from_query_iter(Some(InsertAt(Pairs, k, e))) IN
           \A i \in Declared :
             e.key \notin KeysOf(Routes(input.typ)[i]) =>
               gen_parse_block(Routes(input.typ)[i], path, more) = BlockResult(i)
  /\ (RequestDone(DerivedTypes) /\ input.str = Str(<< "/", "s", "t", "y", "l", "e", ".", "c", "s", "s", "?", "f", "o", "o" >>))
       => result = Ok(Variant("Style", <<>>))

\* C8 witness: "/style.css?foo" was parsed to Style.
C8_Witness ==
  /\ RequestDone({"MyRoute"})
  /\ input.str = Str(<< "/", "s", "t", "y", "l", "e", ".", "c", "s", "s", "?", "f", "o", "o" >>)
  /\ query = Some(<< Pair(S_foo, None) >>)
  /\ result = Ok(Variant("Style", <<>>))

\* The indices of the pairs of the request under a key, and of those with a
\* value.
Occurrences(key) == {i \in 1..Len(Pairs) : Pairs[i].key = key}
Valued(key) == {i \in Occurrences(key) : Pairs[i].value.some}
TheValue(key) == Pairs[CHOOSE i \in Valued(key) : TRUE].value.val

\* A field of the template t is given a text that does not convert: a segment
\* of the path, or the single value of its key.
ConversionFails(t) ==
  \/ \E i \in 1..Len(t.path) :
       /\ t.path[i].kind = "Field"
       /\ i <= Len(path)
       /\ ~parse_route_piece(t.path[i].typ, path[i]).some
  \/ \E i \in 1..Len(t.query) :
       /\ t.query[i].kind = "Field"
       /\ Cardinality(Valued(t.query[i].key)) = 1
       /\ ~parse_route_piece(t.query[i].typ, TheValue(t.query[i].key)).some

\* C9: a field whose text does not convert makes the parse block of its
\* template give no route and nothing else: the parse returns Ok or NoMatch,
\* NoMatch exactly when no block gives a route, so a later template that
\* matches is returned; "foo?bar=fortytwo" is answered NoMatch.
C9_FieldConversionFailure ==
  /\ (Matching /\ pc = "done") =>
       /\ result.tag \in {"Ok", "NoMatch"}
       /\ \A i \in Declared : ConversionFails(Routes(input.typ)[i]) => ~BlockResult(i).some
       /\ result = NoMatch <=> \A i \in Declared : ~BlockResult(i).some
       /\ \A i \in Declared :
            (ConversionFails(Routes(input.typ)[i])
               /\ \E j \in Declared : j > i /\ BlockResult(j).some)
              => result.tag = "Ok"
  /\ (RequestDone(DerivedTypes) /\ input.str = Str(<< "f", "o", "o", "?", "b", "a", "r", "=", "f", "o", "r", "t", "y", "t", "w", "o" >>))
       => result = NoMatch

\* C9 witness: in MyRouteRev, "/?poll=no" fails to convert in the template of
\* Poll (declared second) and is then matched by Home (declared last).
C9_Witness ==
  /\ RequestDone({"MyRouteRev"})
  /\ input.str = Str(<< "/", "?", "p", "o", "l", "l", "=", "n", "o" >>)
  /\ MyRouteRev[2].ident = "Poll"
  /\ ConversionFails(MyRouteRev[2])
  /\ result = Ok(Variant("Home", <<>>))

\* What C10 says of one query entry of a template.
EntryMatches(e) ==
  CASE e.kind = "None" -> Occurrences(e.key) # {}
    [] e.kind = "Literal" ->
         Cardinality(Valued(e.key)) = 1 /\ TheValue(e.key) = e.lit
    [] e.kind = "Field" ->
         Cardinality(Valued(e.key)) = 1
           /\ parse_route_piece(e.typ, TheValue(e.key)).some

\* C10: when the path of the request fits the template whose parse block runs
\* next, the block gives a route exactly when every query entry matches: a
\* bare key occurs at least once, with or without value; a literal is the
\* value of the only occurrence of its key that has a value; a field converts
\* the value of the only occurrence of its key that has a value.
C10_QueryEntries ==
  (Matching /\ pc = "match" /\ idx \in Declared) =>
    LET t == Routes(input.typ)[idx] IN
      parse_path_stmts(t.path, path, 1, <<>>).some =>
        (BlockResult(idx).some <=> \A i \in 1..Len(t.query) : EntryMatches(t.query[i]))

\* C10 witness: in MyRouteRev the request "/?readiness=x", whose key has a
\* value, is matched by the bare key of "/?readiness".
C10_Witness ==
  /\ RequestDone({"MyRouteRev"})
  /\ input.str = Str(<< "/", "?", "r", "e", "a", "d", "i", "n", "e", "s", "s", "=", "x" >>)
  /\ result = Ok(Variant("Readiness", <<>>))

\* C11: for a QueryMap built from a sequence of pairs, contains(key) is true
\* exactly when the key occurs in a pair, bare or valued; get_single(key) is
\* Some(v) exactly when one pair with the key carries a value, v being that
\* value, however many bare occurrences there are, and None otherwise; an
\* absent query builds the empty map.
C11_QueryMap ==
  (input.kind = "pairs" /\ pc = "map") =>
    /\ \A key \in {S_k, S_v, S_foo} :
         /\ contains(qmap, key) <=> Occurrences(key) # {}
         /\ get_single(qmap, key) =
              IF Cardinality(Valued(key)) = 1 THEN Some(TheValue(key)) ELSE None
    /\ ~query.some => (DOMAIN qmap = {} /\ qmap = from_query_iter(Some(<<>>)))

\* C11 witness: a key that occurs bare twice and once with a value has that
\* value as its single value.
C11_Witness ==
  /\ input.kind = "pairs" /\ pc = "map"
  /\ query = Some(<< Pair(S_k, None), Pair(S_k, Some(S_v)), Pair(S_k, None) >>)
  /\ get_single(qmap, S_k) = Some(S_v)
  /\ contains(qmap, S_k) /\ ~contains(qmap, S_v)

\* The number of places of the text t that hold the character c.
Count(t, c) == Cardinality({i \in 1..Len(t) : t[i] = c})

\* The first place of the text t that holds the character c (t holds one).
First(t, c) == CHOOSE i \in 1..Len(t) : t[i] = c /\ \A j \in 1..(i - 1) : t[j] # c

\* The pair a piece of a query text stands for, by C12: no '=' gives the key
\* alone, otherwise the piece is cut at its first '='.
PairOfPiece(t) ==
  IF Count(t, Ord("=")) = 0 THEN Pair(decode(t), None)
  ELSE Pair(decode(SubSeq(t, 1, First(t, Ord("=")) - 1)),
            Some(decode(SubSeq(t, First(t, Ord("=")) + 1, Len(t)))))

\* The same pair with no value and with the empty value.
Bare(p) == Pair(p.key, None)
Emptied(p) == Pair(p.key, Some(<<>>))

\* C12: parse_query gives (key, None) for "key" and (key, Some("")) for
\* "key=", and cuts every piece at its first '=' only; render_path_and_query
\* writes the '=' exactly for the pairs that have a value, so that a pair
\* without value and the same key with the empty value are rendered to
\* different texts and parsed back to different pairs.
C12_BareAndEmptyValue ==
  /\ (input.kind = "text" /\ pc = "query") =>
       /\ wire = T_key => query = Some(<< Pair(T_key, None) >>)
       /\ wire = T_key_eq => query = Some(<< Pair(T_key, Some(<<>>)) >>)
       /\ wire = T_missing =>
            query = Some(<< Pair(S_foo, None), Pair(S_bar, Some(<<>>)),
                            Pair(Str(<< "b", "a", "z" >>), Some(Str(<< "b", "i", "n" >>))) >>)
       /\ (wire # <<>> /\ Count(wire, Ord("&")) = 0) =>
            query = Some(<< PairOfPiece(wire) >>)
       /\ \A i \in 1..Len(query.val) :
            query.val[i].value.some <=> Count(Split(wire, Ord("&"))[i], Ord("=")) > 0
  /\ (input.kind = "pieces" /\ pc \in {"rendered", "reparsed"}
        /\ input.query.some /\ Len(input.query.val) = 1) =>
       LET p == input.query.val[1]
           bare == render_path_and_query(input.path, Some(<< Bare(p) >>))
           emptied == render_path_and_query(input.path, Some(<< Emptied(p) >>))
       IN /\ emptied = bare \o << Ord("=") >>
          /\ parse_path_and_query(bare).query # parse_path_and_query(emptied).query
          /\ p = Bare(p) => wire = bare
          /\ p = Emptied(p) => wire = emptied
          /\ (p.key = S_k /\ pc = "reparsed" /\ p \in {Bare(p), Emptied(p)})
               => query = input.query
  /\ (input.kind = "pieces" /\ pc = "rendered" /\ input.query.some
        /\ \A i \in 1..Len(input.query.val) :
             /\ input.query.val[i].key # S_eq
             /\ input.query.val[i].value # Some(S_eq)) =>
       Count(wire, Ord("=")) =
         Cardinality({i \in 1..Len(input.query.val) : input.query.val[i].value.some})

\* C12 witness: the pair ("k", Some("")) was written as "k=" and read back
\* with its empty value.
C12_Witness ==
  /\ input.kind = "pieces" /\ pc = "reparsed"
  /\ input.path = <<>>
  /\ input.query = Some(<< Pair(S_k, Some(<<>>)) >>)
  /\ wire = Str(<< "/", "?", "k", "=" >>)
  /\ query = Some(<< Pair(S_k, Some(<<>>)) >>)

\* The number of '?' the decoded pairs of the query in hand hold.
QuestionMarks ==
  LET n(t) == Count(t, Ord("?"))
      RECURSIVE sum(_)
      sum(i) == IF i = 0 THEN 0
                ELSE sum(i - 1) + n(Pairs[i].key)
                       + (IF Pairs[i].value.some THEN n(Pairs[i].value.val) ELSE 0)
  IN sum(Len(Pairs))

\* C13: parse_path_and_query cuts its input at the first '?' only: the query
\* is None exactly when the input holds no '?', Some of no pairs when nothing
\* follows the first '?', and every later '?' is text of the query.
C13_SplitAtFirstQuestionMark ==
  (input.kind = "text" /\ pc = "parsed") =>
    /\ query = None <=> Count(wire, Ord("?")) = 0
    /\ Count(wire, Ord("?")) = 0 => path = parse_path(wire)
    /\ Count(wire, Ord("?")) > 0 =>
         LET i == First(wire, Ord("?")) IN
           /\ path = parse_path(SubSeq(wire, 1, i - 1))
           /\ query = Some(parse_query(SubSeq(wire, i + 1, Len(wire))))
           /\ i = Len(wire) => query = Some(<<>>)
           /\ QuestionMarks = Count(wire, Ord("?")) - 1
    /\ \A i \in 1..Len(path) : Count(path[i], Ord("?")) = 0
    /\ wire = T_foo_bar => query = None
    /\ wire = T_foo_bar_q => query = Some(<<>>)
    /\ wire = X_question_in_query =>
         /\ path = << S_foo, <<>> >>
         /\ query = Some(<< Pair(S_bar, Some(Str(<< "b", "a", "z", "?" >>))) >>)

\* C13 witness: "/foo/?bar=baz?" was cut at its first '?'.
C13_Witness ==
  /\ input.kind = "text" /\ pc = "parsed"
  /\ wire = X_question_in_query
  /\ path = << S_foo, <<>> >>
  /\ query = Some(<< Pair(S_bar, Some(Str(<< "b", "a", "z", "?" >>))) >>)

\* The text t without one leading '/'.
DropSlash(t) == IF t # <<>> /\ t[1] = Ord("/") THEN Tail(t) ELSE t

\* C14: one leading '/' is optional for parse_path: a text that does not
\* start with '/' gives the same segments with a '/' put in front, "" and "/"
\* give no segment, and only one leading '/' is dropped: every '/' after it
\* ends a segment, so that doubled and trailing slashes give empty segments.
C14_LeadingSlashOptional ==
  (input.kind = "text" /\ pc = "path") =>
    /\ wire \in {<<>>, S_slash} => path = <<>>
    /\ DropSlash(wire) = wire => path = parse_path(S_slash \o wire)
    /\ (DropSlash(wire) # wire /\ DropSlash(Tail(wire)) = Tail(wire))
         => path = parse_path(Tail(wire))
    /\ DropSlash(wire) # <<>> => Len(path) = Count(DropSlash(wire), Ord("/")) + 1
    /\ DropSlash(wire) = <<>> => path = <<>>
    /\ wire = T_slashes => path = << S_foo, <<>>, S_bar, <<>> >>
    /\ wire = T_two_slashes => path = << <<>>, S_foo >>

\* C14 witness: of the two leading slashes of "//foo" one was dropped and the
\* other gave an empty segment.
C14_Witness ==
  /\ input.kind = "text" /\ pc = "path"
  /\ wire = T_two_slashes
  /\ path = << <<>>, S_foo >>
  /\ parse_path(S_slash \o S_foo) = parse_path(S_foo)

\* What render_path_and_query wrote before the '?' of the query (a '?' of a
\* segment is written as %3F).
PathPart(t) ==
  IF Count(t, Ord("?")) = 0 THEN t ELSE SubSeq(t, 1, First(t, Ord("?")) - 1)

\* C15: the path part render_path_and_query writes starts with '/': it is
\* "/" for no segment and for the single empty segment, and otherwise a '/'
\* and the encoded segment for each segment in order, with no '/' at the end
\* that is not the '/' of an empty last segment.
C15_RenderedPath ==
  (input.kind = "pieces" /\ pc = "rendered") =>
    LET part == PathPart(wire) IN
      /\ part # <<>> /\ part[1] = Ord("/")
      /\ input.path \in {<<>>, << <<>> >>} => part = S_slash
      /\ input.path # <<>> =>
           /\ part = Concat([i \in 1..Len(input.path) |->
                               S_slash \o encode(input.path[i], PATH_SET)])
           /\ Count(part, Ord("/")) = Len(input.path)
           /\ part[Len(part)] = Ord("/") <=> input.path[Len(input.path)] = <<>>
      /\ input.path = << S_hello, S_world >> =>
           part = Str(<< "/", "h", "e", "l", "l", "o", "/", "w", "o", "r", "l", "d" >>)

\* C15 witness: the segments "hello" and "world" were written as
\* "/hello/world".
C15_Witness ==
  /\ input.kind = "pieces" /\ pc = "rendered"
  /\ input.path = << S_hello, S_world >>
  /\ input.query = None
  /\ wire = Str(<< "/", "h", "e", "l", "l", "o", "/", "w", "o", "r", "l", "d" >>)

\* What render_path_and_query wrote after the '?' of the query.
QueryPart(t) == SubSeq(t, First(t, Ord("?")) + 1, Len(t))

\* One pair as C16 has it written: the encoded key alone, or key '=' value.
PairText(p) ==
  IF p.value.some
  THEN encode(p.key, QUERY_SET) \o Str(<< "=" >>) \o encode(p.value.val, QUERY_SET)
  ELSE encode(p.key, QUERY_SET)

\* C16: render_path_and_query writes a '?' exactly when the query is Some,
\* also for no pairs, which gives a '?' at the end; then the pairs in order
\* with one '&' between two pairs and none before the first or after the last;
\* a pair without value is the encoded key alone, a pair with a value is key
\* '=' value.
C16_RenderedQuery ==
  (input.kind = "pieces" /\ pc = "rendered") =>
    /\ Count(wire, Ord("?")) = (IF input.query.some THEN 1 ELSE 0)
    /\ input.query.some =>
         LET pairs == input.query.val IN
           /\ QueryPart(wire) = Join([i \in 1..Len(pairs) |-> PairText(pairs[i])], Ord("&"))
           /\ pairs = <<>> => wire = PathPart(wire) \o Str(<< "?" >>)
           /\ (pairs # <<>> /\ \A i \in 1..Len(pairs) : pairs[i].value # Some(S_amp))
                => Count(QueryPart(wire), Ord("&")) = Len(pairs) - 1
           /\ pairs = Q_missing =>
                wire = Str(<< "/", "?" >>) \o T_missing
    /\ (input.path = << S_hello, S_world >> /\ input.query = Some(<<>>)) =>
         wire = Str(<< "/", "h", "e", "l", "l", "o", "/", "w", "o", "r", "l", "d", "?" >>)

\* C16 witness: the pairs ("foo", None), ("bar", Some("")), ("baz",
\* Some("bin")) were written as "/?foo&bar=&baz=bin".
C16_Witness ==
  /\ input.kind = "pieces" /\ pc = "rendered"
  /\ input.query = Some(Q_missing)
  /\ wire = Str(<< "/", "?" >>) \o T_missing

\* C17: a value that holds '&', '=' or '%' is written with that character
\* percent-encoded: the pair ("", Some("&")) is rendered as "/?=%26", ("",
\* Some("=")) as "/?=%3D" and ("", Some("%00")) as "/?=%2500", and each is
\* parsed back to the same single pair.
C17_ReservedCharactersEncoded ==
  (input.kind = "pieces" /\ pc = "reparsed" /\ input.path = <<>>
     /\ input.query.some /\ Len(input.query.val) = 1
     /\ input.query.val[1].key = <<>>) =>
    LET value == input.query.val[1].value IN
      /\ value = Some(S_amp) => wire = Str(<< "/", "?", "=", "%", "2", "6" >>)
      /\ value = Some(S_eq) => wire = Str(<< "/", "?", "=", "%", "3", "D" >>)
      /\ value = Some(S_pct00) => wire = Str(<< "/", "?", "=", "%", "2", "5", "0", "0" >>)
      /\ value \in {Some(S_amp), Some(S_eq), Some(S_pct00)} => query = input.query

\* C18: the encoding and the decoding of the path are inverse: parse_path
\* gives back every list of segments that are not empty from the path
\* render_path_and_query wrote for it, whatever characters the segments hold
\* ('/', '?', '#', '%', space, a character outside ASCII); "%2F" and "%2f"
\* are both decoded to '/'.
C18_PathCodecInverse ==
  /\ (input.kind = "pieces" /\ pc = "reparsed" /\ input.query = None
        /\ \A i \in 1..Len(input.path) : input.path[i] # <<>>)
       => path = input.path
  /\ (input.kind = "text" /\ pc = "path" /\ wire \in {S_pct2F, Str(<< "%", "2", "f" >>)})
       => path = << S_slash >>

\* The return of the generated parse over the results of its parse blocks,
\* in the order of declaration: the route of the first that gives one.
FirstRoute(blocks) ==
  IF \A i \in DOMAIN blocks : ~blocks[i].some THEN NoMatch
  ELSE Ok(blocks[CHOOSE i \in DOMAIN blocks :
                   blocks[i].some /\ \A j \in DOMAIN blocks : blocks[j].some => i <= j].val)

\* Self::parse of the route type typ after its call of normalize_parse, which
\* returned n.
ParseNormalized(typ, n) ==
  IF n.tag = "Err" THEN NormalizationFailed(n.target)
  ELSE IF typ = "PlainRoute" THEN Ok(PlainRoute(n.path, n.query))
  ELSE FirstRoute([i \in 1..Len(Routes(typ)) |->
                     gen_parse_block(Routes(typ)[i], n.path, from_query_iter(n.query))])

\* What Self::parse of the route type typ returns on the path p and the
\* query q.
ParseResult(typ, p, q) == ParseNormalized(typ, normalize_parse(p, q))

\* Self::parse on the two parts pq of a request.
ParseParts(typ, pq) == ParseResult(typ, pq.path, pq.query)

\* What parse_str of the route type typ returns on the text t.
ParseStrResult(typ, t) == ParseParts(typ, parse_path_and_query(t))

\* C19: parse_strs(path, q) returns what parse_str returns on the path, a
\* '?' and q without its one leading '?', so that the matcher sees the pairs
\* of q.
C19_ParseStrsLikeParseStr ==
  (input.kind = "strs" /\ pc = "done") =>
    result = ParseStrResult(input.typ,
                            input.path \o Str(<< "?" >>) \o strip_prefix(input.query))

\* C20: parsing is total: on every input, the requests with percent
\* sequences that are cut short, not hexadecimal or not UTF-8 included, what
\* parse_str of PlainRoute and of the derived types returns is one of
\* Ok(route), Err(NoMatch) and Err(NormalizationFailed(target)), never a
\* panic.
C20_ParsingIsTotal ==
  /\ result.tag # "Panic"
  /\ (pc = "done" /\ input.kind \in {"route", "request", "strs"}) =>
       /\ result.tag \in {"Ok", "NoMatch", "NormalizationFailed"}
       /\ input.typ = "PlainRoute" => result.tag # "NoMatch"
  /\ (pc = "done" /\ input.kind = "request" /\ input.str \in MalformedRequests) =>
       result = ParseStrResult(input.typ, input.str)

\* C20 witness: "/hello/%FF", whose percent sequence is not UTF-8, was parsed
\* to Hello with U+FFFD for a name.
C20_Witness ==
  /\ RequestDone({"MyRoute"})
  /\ input.str = Str(<< "/", "h", "e", "l", "l", "o", "/", "%", "F", "F" >>)
  /\ result = Ok(Variant("Hello", << StringPiece(<< Replacement >>) >>))

\* C24: a request is normalized before it is matched: when a decoded segment
\* of it is empty, parse_str returns NormalizationFailed with the request
\* without its empty segments, whether a template matches those segments or
\* none does ("/does/not/exist/" gives "/does/not/exist"), and NoMatch is
\* returned only for a request with no empty segment.
C24_NormalizedBeforeMatching ==
  RequestDone(RouteTypes) =>
    LET pq == parse_path_and_query(input.str)
        canonical == render_path_and_query(NonEmptySegments(pq.path), pq.query)
    IN /\ HasEmptySegment(pq.path) => result = NormalizationFailed(canonical)
       /\ result.tag = "NoMatch" => ~HasEmptySegment(pq.path)
       /\ input.str = X_not_exist_slash => result = NormalizationFailed(X_not_exist)

\* C24 witness: "/does/not/exist/", which no template of MyRoute matches with
\* or without its empty segment, was answered with "/does/not/exist".
C24_Witness ==
  /\ RequestDone({"MyRoute"})
  /\ input.str = X_not_exist_slash
  /\ result = NormalizationFailed(X_not_exist)
  /\ ParseStrResult("MyRoute", X_not_exist) = NoMatch

\* parse_str or parse_strs has returned NormalizationFailed.
Redirected ==
  pc = "done" /\ input.kind \in {"request", "strs"} /\ result.tag = "NormalizationFailed"

\* C25: the redirect never loops: when parse_str(s) returns
\* NormalizationFailed(t), t has no empty segment and parse_str(t) returns Ok or
\* NoMatch, never NormalizationFailed again.
C25_RedirectNeverLoops ==
  Redirected =>
    /\ ~HasEmptySegment(parse_path_and_query(result.target).path)
    /\ ParseStrResult(input.typ, result.target).tag \in {"Ok", "NoMatch"}

\* C25 witness: "/%2F/" was answered with "/%2F", the encoded slash still one
\* segment.
C25_Witness ==
  /\ Redirected
  /\ input.kind = "request"
  /\ input.str = Str(<< "/", "%", "2", "F", "/" >>)
  /\ result.target = Str(<< "/", "%", "2", "F" >>)
  /\ parse_path_and_query(result.target).path = << S_slash >>

\* C26: the target of the redirect is the request without its empty
\* segments: parse_path_and_query of it gives the decoded segments of the
\* request that are not empty, in order, and the query of the request, absent
\* when it was absent, of no pairs when it was, and with the same keys and
\* values, those whose decoded text holds '%', '&' or '=' included.
C26_RedirectTargetIsRequest ==
  (Redirected /\ input.kind = "request") =>
    LET pq == parse_path_and_query(input.str)
        t == parse_path_and_query(result.target)
    IN /\ t.path = NonEmptySegments(pq.path)
       /\ t.query = pq.query

C30_AssertNeverFails ==
  /\ pc = "segs_p" =>
       /\ result # Panicked
       /\ result.tag = "Ok" =>
            \A i \in 1..Len(input.path) :
              /\ input.path[i] # <<>>
              /\ OnlyDashes(input.path[i]) =>
                   Len(result.path[i]) = Len(input.path[i]) - 1
  /\ pc = "segs_rp" => result # Panicked
  /\ input.kind = "request" =>
       /\ result # Panic
       /\ normalize_parse(parse_path_and_query(input.str).path,
                          parse_path_and_query(input.str).query) # Panicked

\* C30 witness: normalize_parse stripped the one dash of a segment and left
\* the empty segment.
C30_Witness ==
  /\ pc = "segs_p"
  /\ input.path = << Dashes(1), S_a >>
  /\ result = NormOk(<< <<>>, S_a >>, input.query)

\* A value of a derived route type has been rendered.
DerivedRendered == input.kind = "route" /\ input.typ \in DerivedTypes /\ pc # "value"

\* C21: query() of a derived route is None when the template of the variant
\* has no query entry, so that the rendering holds no '?'; otherwise it is
\* the entries of the template in order, a bare key as (key, None), a literal
\* as (key, Some(literal)) and a field as (key, Some(rendered value)):
\* Foo{bar: 42} is rendered "/foo?bar=42".
C21_DerivedQuery ==
  DerivedRendered =>
    LET t == RouteOfValue(input.typ, input.route)
        q == route_query(input.typ, input.route)
        v == input.route
    IN /\ t.query = <<>> => (q = None /\ Count(wire, Ord("?")) = 0)
       /\ t.query # <<>> =>
            /\ q.some /\ Len(q.val) = Len(t.query)
            /\ \A i \in 1..Len(t.query) :
                 /\ q.val[i].key = t.query[i].key
                 /\ t.query[i].kind = "None" => q.val[i].value = None
                 /\ t.query[i].kind = "Literal" => q.val[i].value = Some(t.query[i].lit)
                 /\ t.query[i].kind = "Field" =>
                      q.val[i].value = Some(render_route_piece(v.fields[Len(v.fields)]))
            /\ Count(wire, Ord("?")) = 1
       /\ v.variant = "Home" => wire = S_slash
       /\ v.variant = "Style" => wire = Str(<< "/", "s", "t", "y", "l", "e", ".", "c", "s", "s" >>)
       /\ v.variant = "Readiness" => wire = Str(<< "/", "?", "r", "e", "a", "d", "i", "n", "e", "s", "s" >>)
       /\ v.variant = "Refresh" => wire = Str(<< "/", "r", "e", "f", "r", "e", "s", "h", "?", "f", "o", "r", "c", "e", "=", "t", "r", "u", "e" >>)
       /\ v = Variant("Poll", << BoolPiece(TRUE) >>) => wire = Str(<< "/", "?", "p", "o", "l", "l", "=", "t", "r", "u", "e" >>)
       /\ v = Variant("Poll", << BoolPiece(FALSE) >>) => wire = Str(<< "/", "?", "p", "o", "l", "l", "=", "f", "a", "l", "s", "e" >>)
       /\ v = Variant("Foo", << I32Piece(42) >>) => wire = Str(<< "/", "f", "o", "o", "?", "b", "a", "r", "=", "4", "2" >>)
       /\ v = Variant("Foo", << I32Piece(-7) >>) => wire = Str(<< "/", "f", "o", "o", "?", "b", "a", "r", "=", "-", "7" >>)
       /\ v = Variant("Foo", << I32Piece(I32Min) >>) => wire = Str(<< "/", "f", "o", "o", "?", "b", "a", "r", "=", "-", "2", "1", "4", "7", "4", "8", "3", "6", "4", "8" >>)

\* C21 witness: Foo{bar: 42} was rendered "/foo?bar=42".
C21_Witness ==
  /\ DerivedRendered
  /\ input.route = Variant("Foo", << I32Piece(42) >>)
  /\ wire = Str(<< "/", "f", "o", "o", "?", "b", "a", "r", "=", "4", "2" >>)

(***************************************************************************)
(* The bindings: the request helper of routetype-hyper and the dispatch    *)
(* filter of routetype-warp, each on one request given by the text of its  *)
(* path and query, with an application whose methods return as listed.     *)
(*                                                                         *)
(*   "request" -HyperHelper-> "responded"                                  *)
(*   "request" -WarpDispatch-> "responded"                                 *)
(***************************************************************************)
\* hyper::StatusCode and warp::http::StatusCode.
OK == 200
MOVED_PERMANENTLY == 301
TEMPORARY_REDIRECT == 307
NOT_FOUND == 404
INTERNAL_SERVER_ERROR == 500

\* A response: its status, its Location header and what its body is.
Response(status, location, body) ==
  [status |-> status, location |-> location, body |-> body]

\* anyhow::Result<Response<Body>>.
OkResponse(res) == [tag |-> "Ok", res |-> res]
ErrResponse == [tag |-> "Err"]

\* respond::html: hyper::Response::new, whose status is 200 OK, with a
\* content type.
html(body) == Response(OK, None, body)

\* routetype_hyper::default_not_found.
hyper_default_not_found == html("<h1>File not found</h1>")

\* routetype_warp::default_not_found.
warp_default_not_found == Response(NOT_FOUND, None, "<h1>Not found</h1>")

\* TryInto<HeaderValue> for String: the bytes of a header value are the
\* visible ones, the space and the tab, and those above 127.
VisibleBytes(bytes) ==
  \A i \in 1..Len(bytes) : (bytes[i] >= 32 /\ bytes[i] # 127) \/ bytes[i] = 9
HeaderValueOk(dest) == VisibleBytes(Utf8Encode(dest))

\* A redirect that is permanent instead of temporary.
temporary_moved(dest) ==
  IF HeaderValueOk(dest)
  THEN OkResponse(Response(MOVED_PERMANENTLY, Some(dest), ""))
  ELSE ErrResponse

\* respond::redirect::temporary.
temporary(dest) ==
  IF HeaderValueOk(dest)
  THEN OkResponse(Response(TEMPORARY_REDIRECT, Some(dest), ""))
  ELSE ErrResponse

\* warp::redirect::permanent.
permanent(dest) == Response(MOVED_PERMANENTLY, Some(dest), "")

\* What the methods of the application return: dispatch a response or, in
\* hyper, an error; not_found is the default of the trait or is overridden and
\* returns a response or, in hyper, an error.
AppResponse == Response(OK, None, "route")
AppNotFound == Response(NOT_FOUND, None, "application")
Apps ==
  {[binding |-> "hyper", dispatch |-> d, not_found |-> n] :
     d \in {"ok", "err"}, n \in {"default", "ok", "err"}}
    \cup {[binding |-> "warp", dispatch |-> "ok", not_found |-> n] : n \in {"default", "ok"}}

\* Dispatch::dispatch and Dispatch::not_found of the application, as a Result.
dispatch(app) == IF app.dispatch = "ok" THEN OkResponse(AppResponse) ELSE ErrResponse
not_found(app) ==
  CASE app.not_found = "err" -> ErrResponse
    [] app.not_found = "ok" -> OkResponse(AppNotFound)
    [] OTHER -> OkResponse(IF app.binding = "hyper" THEN hyper_default_not_found
                           ELSE warp_default_not_found)

\* The requests: a '/' and at most MaxSegs raw segments, and some with a
\* query.
ServerRequests ==
  {S_slash \o Join(segs, Ord("/")) : segs \in SeqsUpTo(RawSegs, MaxSegs)}
    \cup { Str(<< "/", "?", "r", "e", "a", "d", "i", "n", "e", "s", "s" >>),
           Str(<< "/", "f", "o", "o", "?", "b", "a", "r", "=", "4", "2" >>),
           Str(<< "/", "f", "o", "o", "?", "b", "a", "r", "=", "f", "o", "r", "t", "y", "t", "w", "o" >>),
           Str(<< "/", "f", "o", "o", "/", "?", "b", "a", "r", "=", "4", "2" >>),
           Str(<< "/", "s", "t", "y", "l", "e", ".", "c", "s", "s", "?", "f", "o", "o" >>),
           Str(<< "/", "h", "e", "l", "l", "o", "/", "/", "a", "l", "i", "c", "e", "?", "x" >>),
           Str(<< "/", "d", "o", "e", "s", "/", "n", "o", "t", "/", "e", "x", "i", "s", "t", "/" >>),
           Str(<< "/", "/", "f", "o", "o", "/", "b", "a", "r", "/", "/", "b", "a", "z", "/", "/", "/", "b", "i", "n", "/" >>),
           Str(<< "/", "h", "e", "l", "l", "o", "/", "a", "l", "i", "c", "e", "/", "a", "l", "i", "c", "e" >>),
           Str(<< "/", "h", "e", "l", "l", "o", "/", "%", "F", "F" >>) }

ServerInit ==
  /\ \E typ \in RouteTypes : \E s \in ServerRequests : \E app \in Apps :
       /\ input = [kind |-> "http", typ |-> typ, str |-> s, app |-> app]
       /\ wire = s
  /\ pc = "request"
  /\ path = <<>>
  /\ query = None
  /\ qmap = <<>>
  /\ idx = 0
  /\ result = Pending
  /\ called = NotCalled
  /\ response = NoResponse

\* What the helper does with the Result of not_found, the redirect or
\* dispatch: an Err is handed on.
HelperResponsePropagates(output) == output

\* What the helper does with the Result of not_found, the redirect or
\* dispatch (lines 176-200): Ok(res) is res, Err is the error page with status
\* 500, and the helper returns Ok of it.
HelperResponse(output) ==
  IF output.tag = "Ok" THEN OkResponse(output.res)
  ELSE OkResponse(Response(INTERNAL_SERVER_ERROR, None, "Unhandled error"))

\* The match of the helper on the result of parse_str (lines 172-175).
HelperOutput(app, route) ==
  CASE route.tag = "NoMatch" -> not_found(app)
    [] route.tag = "NormalizationFailed" -> temporary(route.target)
    [] route.tag = "Ok" -> dispatch(app)

\* The method of Dispatch the binding calls on the result of parse_str, and
\* the route it hands to it.
Called(route) ==
  CASE route.tag = "NoMatch" -> [fn |-> "not_found"]
    [] route.tag = "NormalizationFailed" -> NotCalled
    [] route.tag = "Ok" -> [fn |-> "dispatch", route |-> route.route]

\* The helper from the result of parse_str on.
HelperOn(route) ==
  /\ result' = route
  /\ called' = Called(route)
  /\ response' = HelperResponse(HelperOutput(input.app, route))

\* routetype_hyper::helper: parse_str on the path and query of the request,
\* then not_found, the redirect or dispatch, and the error page with status
\* 500 for an Err of any of them.
HyperHelper ==
  /\ pc = "request"
  /\ input.app.binding = "hyper"
  /\ HelperOn(ParseStrResult(input.typ, wire))
  /\ pc' = "responded"
  /\ UNCHANGED << input, wire, path, query, qmap, idx >>

\* route_filter_result: parse_strs on the path and the query string when the
\* request has one, parse_str on the path otherwise.
route_filter_result(typ, request, mark) ==
  ParseResult(typ,
              IF mark = 0 THEN parse_path_and_query(request).path
              ELSE parse_path(SubSeq(request, 1, mark - 1)),
              IF mark = 0 THEN parse_path_and_query(request).query
              ELSE parse_strs_query(SubSeq(request, mark + 1, Len(request))))

\* The match of dispatch_filter on the result of route_filter_result.
DispatchOn(route) ==
  /\ result' = route
  /\ called' = Called(route)
  /\ response' = CASE route.tag = "NoMatch" -> not_found(input.app)
                   [] route.tag = "NormalizationFailed" ->
                        OkResponse(permanent(route.target))
                   [] route.tag = "Ok" -> dispatch(input.app)

\* routetype_warp::dispatch_filter on route_filter_result: dispatch, not_found
\* or the permanent redirect.
WarpDispatch ==
  /\ pc = "request"
  /\ input.app.binding = "warp"
  /\ DispatchOn(route_filter_result(input.typ, wire, Find(wire, Ord("?"))))
  /\ pc' = "responded"
  /\ UNCHANGED << input, wire, path, query, qmap, idx >>

ServerNext ==
  \/ HyperHelper
  \/ WarpDispatch

ServerSpec == ServerInit /\ [][ServerNext]_vars

(***************************************************************************)
(* The derive macro: Route::parse of route_parse.rs compiles the text of   *)
(* one #[route(..)] attribute against the fields of its variant.           *)
(*                                                                         *)
(*   "template" -RouteParse-> "compiled"                                   *)
(***************************************************************************)
MaxTemplateSegs == 2
MaxFields == 2

S_b == Str(<< "b" >>)
S_c == Str(<< "c" >>)
S_open == Str(<< "{" >>)
S_close == Str(<< "}" >>)
S_positional == S_open \o S_close

\* anyhow::Result of the compile steps.
CompileErr == [tag |-> "Err"]

\* RouteValueRaw and its FromStr.
RouteValueRaw_from_str(raw) ==
  IF raw = S_positional THEN [tag |-> "Ok", raw |-> "Positional", text |-> <<>>]
  ELSE IF raw = <<>> \/ raw[1] # Ord("{")
       THEN [tag |-> "Ok", raw |-> "Literal", text |-> raw]
  ELSE IF raw[Len(raw)] = Ord("}") /\ Len(raw) >= 2
       THEN [tag |-> "Ok", raw |-> "Named", text |-> SubSeq(raw, 2, Len(raw) - 1)]
  ELSE CompileErr

\* AsField::from_positional and AsField::from_named of Infallible (a unit
\* variant), () (a tuple variant) and Ident (a named variant).
from_positional(kind) ==
  IF kind = "Unnamed" THEN [tag |-> "Ok", field |-> None] ELSE CompileErr
from_named(kind, ident) ==
  IF kind = "Named" THEN [tag |-> "Ok", field |-> Some(ident)] ELSE CompileErr

\* RouteValue::Literal and RouteValue::Field.
RouteValueLiteral(l) == [kind |-> "Literal", lit |-> l, field |-> None]
RouteValueField(field) == [kind |-> "Field", lit |-> <<>>, field |-> field]

\* RouteValue::parse.
RouteValue_parse(kind, raw) ==
  LET r == RouteValueRaw_from_str(raw)
      field == IF r.raw = "Positional" THEN from_positional(kind)
               ELSE from_named(kind, r.text)
  IN IF r.tag = "Err" THEN CompileErr
     ELSE IF r.raw = "Literal" THEN [tag |-> "Ok", val |-> RouteValueLiteral(r.text)]
     ELSE IF field.tag = "Err" THEN CompileErr
     ELSE [tag |-> "Ok", val |-> RouteValueField(field.field)]

\* RouteValue::remove_field: a literal leaves the fields alone, a field pops
\* the last of them.
remove_field(rv, fields) ==
  IF rv.kind = "Literal" THEN [tag |-> "Ok", fields |-> fields]
  ELSE IF fields = <<>> THEN CompileErr
  ELSE [tag |-> "Ok", fields |-> SubSeq(fields, 1, Len(fields) - 1)]

\* The map and collect of parse_path_fields over the raw segments from the
\* i-th on: the first error ends it.
RECURSIVE path_fields_from(_, _, _, _, _)
path_fields_from(kind, raws, i, fields, acc) ==
  IF i > Len(raws) THEN [tag |-> "Ok", segs |-> acc, fields |-> fields]
  ELSE LET rv == RouteValue_parse(kind, raws[i])
           rest == remove_field(rv.val, fields)
       IN IF rv.tag = "Err" THEN CompileErr
          ELSE IF rest.tag = "Err" THEN CompileErr
          ELSE path_fields_from(kind, raws, i + 1, rest.fields, Append(acc, rv.val))

\* parse_path_fields.
parse_path_fields(kind, raw_path, fields) ==
  LET raw == IF raw_path # <<>> /\ raw_path[1] = Ord("/") THEN Tail(raw_path) ELSE raw_path
  IN IF raw = <<>> THEN [tag |-> "Ok", segs |-> <<>>, fields |-> fields]
     ELSE path_fields_from(kind, Split(raw, Ord("/")), 1, fields, <<>>)

\* The map and collect of parse_query_fields over the raw pairs from the
\* i-th on.
RECURSIVE query_fields_from(_, _, _, _, _)
query_fields_from(kind, raws, i, fields, acc) ==
  IF i > Len(raws) THEN [tag |-> "Ok", segs |-> acc, fields |-> fields]
  ELSE LET eq == Find(raws[i], Ord("="))
           rv == RouteValue_parse(kind, SubSeq(raws[i], eq + 1, Len(raws[i])))
           rest == remove_field(rv.val, fields)
       IN IF eq = 0
          THEN query_fields_from(kind, raws, i + 1, fields,
                                 Append(acc, [key |-> raws[i], value |-> None]))
          ELSE IF rv.tag = "Err" THEN CompileErr
          ELSE IF rest.tag = "Err" THEN CompileErr
          ELSE query_fields_from(kind, raws, i + 1, rest.fields,
                                 Append(acc, [key |-> SubSeq(raws[i], 1, eq - 1),
                                              value |-> Some(rv.val)]))

\* parse_query_fields.
parse_query_fields(kind, raw_query, fields) ==
  IF raw_query = <<>> THEN CompileErr
  ELSE query_fields_from(kind, Split(raw_query, Ord("&")), 1, fields, <<>>)

\* require_fields_used.
require_fields_used(fields) == fields = <<>>

\* PathAndQuery::parse.
PathAndQuery_parse(kind, raw_route, fields) ==
  LET mark == Find(raw_route, Ord("?"))
      raw_path == IF mark = 0 THEN raw_route ELSE SubSeq(raw_route, 1, mark - 1)
      p == parse_path_fields(kind, raw_path, fields)
      q == IF mark = 0 THEN [tag |-> "Ok", segs |-> <<>>, fields |-> p.fields]
           ELSE parse_query_fields(kind, SubSeq(raw_route, mark + 1, Len(raw_route)),
                                   p.fields)
  IN IF p.tag = "Err" THEN CompileErr
     ELSE IF q.tag = "Err" THEN CompileErr
     ELSE IF ~require_fields_used(q.fields) THEN CompileErr
     ELSE [tag |-> "Ok", path |-> p.segs, query |-> q.segs]

\* The variants: a unit variant, a tuple variant and a named variant of at
\* most MaxFields fields, the named fields a and b.
FieldNames == {S_a, S_b}
Injective(f) == \A i, j \in DOMAIN f : f[i] = f[j] => i = j
Variants ==
  {[kind |-> "Unit", fields |-> <<>>]}
    \cup {[kind |-> "Unnamed", fields |-> [i \in 1..n |-> None]] : n \in 0..MaxFields}
    \cup {[kind |-> "Named", fields |-> [i \in DOMAIN f |-> Some(f[i])]] :
            f \in {g \in SeqsUpTo(FieldNames, MaxFields) : Injective(g)}}

\* The route attributes: at most MaxTemplateSegs segments, each a literal, a
\* placeholder or a brace that is not closed, and a query or none.
TemplateSegs ==
  {S_foo, S_positional, S_open \o S_a \o S_close, S_open \o S_b \o S_close,
   S_open \o S_c \o S_close, S_open \o S_a}
TemplateQueries ==
  {<<>>, S_k, S_k \o Str(<< "=" >>) \o S_positional,
   S_k \o Str(<< "=" >>) \o S_open \o S_a \o S_close,
   S_k \o Str(<< "=" >>) \o S_open \o S_b \o S_close,
   S_k \o Str(<< "&" >>) \o S_bar \o Str(<< "=" >>) \o S_foo}
TemplatePaths ==
  {S_slash \o Join(segs, Ord("/")) : segs \in SeqsUpTo(TemplateSegs, MaxTemplateSegs)}
    \cup {<<>>, S_foo, S_open \o S_a \o S_close}
Templates ==
  TemplatePaths \cup {p \o Str(<< "?" >>) \o q : p \in TemplatePaths, q \in TemplateQueries}

DeriveInit ==
  /\ \E v \in Variants : \E t \in Templates :
       /\ input = [kind |-> "derive", variant |-> v, str |-> t]
       /\ wire = t
  /\ pc = "template"
  /\ path = <<>>
  /\ query = None
  /\ qmap = <<>>
  /\ idx = 0
  /\ result = Pending
  /\ called = NotCalled
  /\ response = NoResponse

\* Route::parse on one variant: RouteContents::parse_named, parse_positional or
\* parse_unit, each PathAndQuery::parse with the fields of the variant.
RouteParse ==
  /\ pc = "template"
  /\ result' = PathAndQuery_parse(input.variant.kind, wire, input.variant.fields)
  /\ pc' = "compiled"
  /\ UNCHANGED << input, wire, path, query, qmap, idx, called, response >>

DeriveNext == RouteParse

DeriveSpec == DeriveInit /\ [][DeriveNext]_vars

\* The placeholders of a compiled template, those of the path and then those
\* of the query: the field each one holds.
RECURSIVE Placeholders(_)
Placeholders(vals) ==
  IF vals = <<>> THEN <<>>
  ELSE (IF Head(vals).kind = "Field" THEN << Head(vals).field >> ELSE <<>>)
         \o Placeholders(Tail(vals))
QueryValues(qs) ==
  LET valued == SelectSeq(qs, LAMBDA e : e.value.some)
  IN [i \in DOMAIN valued |-> valued[i].value.val]

\* C23: a template compiles only if its placeholders are the fields of the
\* variant one to one, as many and in the order of the variant: none for a
\* unit variant, "{}" for each field of a tuple variant, and "{name}" with the
\* name of each field of a named variant.
C23_PlaceholdersAreFields ==
  (pc = "compiled" /\ input.kind = "derive" /\ result.tag = "Ok") =>
    Placeholders(result.path \o QueryValues(result.query)) = input.variant.fields

\* The request of the hyper binding has been answered.
HyperDone == pc = "responded" /\ input.kind = "http" /\ input.app.binding = "hyper"

C28_DefaultNotFoundIs404 ==
  (pc = "responded" /\ input.kind = "http" /\ called = [fn |-> "not_found"]
     /\ input.app.not_found = "default") =>
    /\ response.tag = "Ok"
    /\ response.res.status = 404

\* What the application or the redirect returned for the request, by the
\* result of parse_str.
HandlerOutput ==
  LET route == ParseStrResult(input.typ, input.str)
  IN CASE route.tag = "Ok" ->
            IF input.app.dispatch = "ok" THEN OkResponse(AppResponse) ELSE ErrResponse
       [] route.tag = "NoMatch" ->
            CASE input.app.not_found = "ok" -> OkResponse(AppNotFound)
              [] input.app.not_found = "err" -> ErrResponse
              [] OTHER -> OkResponse(hyper_default_not_found)
       [] OTHER -> temporary(route.target)

=============================================================================
